---- MODULE Spec2Model ----
(***************************************************************************)
(* The staged artifact pipeline of bundle_pipeline: audio inventory, stage *)
(* cache, transcription and curation stage drivers, and the assembler, as  *)
(* one sequential process working on a file system.                        *)
(*                                                                         *)
(* Strings whose characters the code inspects (file names, language tags)  *)
(* are sequences of one-character strings; a path is <<directory, name>>.  *)
(***************************************************************************)
EXTENDS Integers, Sequences, FiniteSets, TLC

\* ------------------------------------------------------------------------
\* Characters and strings
\* ------------------------------------------------------------------------

\* The characters that occur in the model, in code-point order.
Ascii == << " ", "-", ".", "0", "1", "2", "3", "4", "5", "6", "7", "8", "9",
            "A", "B", "C", "D", "E", "F", "G", "H", "I", "J", "K", "L", "M",
            "N", "O", "P", "Q", "R", "S", "T", "U", "V", "W", "X", "Y", "Z",
            "_",
            "a", "b", "c", "d", "e", "f", "g", "h", "i", "j", "k", "l", "m",
            "n", "o", "p", "q", "r", "s", "t", "u", "v", "w", "x", "y", "z",
            "²" >>

OrdTable == [c \in {Ascii[i] : i \in 1..Len(Ascii)} |-> CHOOSE i \in 1..Len(Ascii) : Ascii[i] = c]

\* ord(c), up to the characters left out of Ascii
Ord(c) == OrdTable[c]

Digits == {"0", "1", "2", "3", "4", "5", "6", "7", "8", "9"}

DigitVal(c) == Ord(c) - Ord("0")

UpperLetters == {Ascii[i] : i \in Ord("A")..Ord("Z")}
LowerLetters == {Ascii[i] : i \in Ord("a")..Ord("z")}

LowerTable ==
    [c \in DOMAIN OrdTable |->
        IF c \in UpperLetters THEN Ascii[OrdTable[c] - OrdTable["A"] + OrdTable["a"]] ELSE c]
UpperTable ==
    [c \in DOMAIN OrdTable |->
        IF c \in LowerLetters THEN Ascii[OrdTable[c] - OrdTable["a"] + OrdTable["A"]] ELSE c]

\* str.lower() and str.upper() on one character
LowerChar(c) == LowerTable[c]
UpperChar(c) == UpperTable[c]

Lower(s) == [i \in 1..Len(s) |-> LowerChar(s[i])]

\* Characters that are digits for str.isdigit() and neither match \d nor are
\* accepted by int()
SuperscriptDigits == {"²"}

\* str.isdigit(): non-empty and all digits
IsDigitStr(s) == s # <<>> /\ \A i \in 1..Len(s) : s[i] \in Digits \cup SuperscriptDigits

\* int(s) raises ValueError unless s is made of decimal digits
int_raises(s) == \E i \in 1..Len(s) : s[i] \notin Digits

\* int(s) for a string of decimal digits
RECURSIVE ToInt(_)
ToInt(s) ==
    IF s = <<>> THEN 0
    ELSE 10 * ToInt(SubSeq(s, 1, Len(s) - 1)) + DigitVal(s[Len(s)])

\* Python's < on two str values
StrLess(a, b) ==
    \E i \in 1..(Len(a) + 1) :
        /\ i <= Len(b)
        /\ \A j \in 1..(i - 1) : a[j] = b[j]
        /\ \/ i = Len(a) + 1
           \/ i <= Len(a) /\ Ord(a[i]) < Ord(b[i])

Range(s) == {s[i] : i \in 1..Len(s)}

\* ------------------------------------------------------------------------
\* Audio inventory (audio.py)
\* ------------------------------------------------------------------------

Ext_mp3  == << ".", "m", "p", "3" >>
Ext_m4a  == << ".", "m", "4", "a" >>
Ext_wav  == << ".", "w", "a", "v" >>
Ext_aac  == << ".", "a", "a", "c" >>
Ext_flac == << ".", "f", "l", "a", "c" >>
Ext_ogg  == << ".", "o", "g", "g" >>
Ext_opus == << ".", "o", "p", "u", "s" >>

AUDIO_EXTENSIONS == {Ext_mp3, Ext_m4a, Ext_wav, Ext_aac, Ext_flac, Ext_ogg, Ext_opus}

\* re.split(r"(\d+)", s): the runs of s, text runs at odd positions and digit
\* runs at even positions; the first and the last run are text runs, empty
\* when s starts or ends with a digit.
re_split_digits(s) ==
    LET F[i \in 0..Len(s)] ==
            IF i = 0 THEN << <<>> >>
            ELSE LET p == F[i - 1]
                     c == s[i]
                     k == Len(p)
                 IN  IF (c \in Digits) = (k % 2 = 0)
                     THEN [p EXCEPT ![k] = Append(@, c)]
                     ELSE Append(p, <<c>>)
        r == F[Len(s)]
    IN  IF Len(r) % 2 = 0 THEN Append(r, <<>>) ELSE r

\* One element of a sort key: an int or a str.
KeyInt(n) == [num |-> TRUE, n |-> n, s |-> <<>>]
KeyStr(s) == [num |-> FALSE, n |-> 0, s |-> s]

natural_sort_key(filename) ==
    LET parts == re_split_digits(Lower(filename))
    IN  [i \in 1..Len(parts) |->
            IF IsDigitStr(parts[i]) THEN KeyInt(ToInt(parts[i])) ELSE KeyStr(parts[i])]

\* natural_sort_key(filename) raises ValueError: a run that is no \d+ run
\* but isdigit() is handed to int()
natural_sort_key_raises(filename) ==
    LET parts == re_split_digits(Lower(filename))
    IN  \E i \in 1..Len(parts) : IsDigitStr(parts[i]) /\ int_raises(parts[i])

\* Python's < on two elements of a key (an int against a str has no order)
KeyElemLess(x, y) ==
    IF x.num /\ y.num THEN x.n < y.n
    ELSE IF ~x.num /\ ~y.num THEN StrLess(x.s, y.s)
    ELSE FALSE

\* Python's < on two tuples
KeyLess(a, b) ==
    \E i \in 1..(Len(a) + 1) :
        /\ i <= Len(b)
        /\ \A j \in 1..(i - 1) : a[j] = b[j]
        /\ \/ i = Len(a) + 1
           \/ i <= Len(a) /\ KeyElemLess(a[i], b[i])

\* list.sort(key=...) is stable: x goes behind every element whose key is
\* not greater than its own.
InsertByKey(x, sorted) ==
    LET k == Cardinality({i \in 1..Len(sorted) :
                 ~KeyLess(natural_sort_key(x), natural_sort_key(sorted[i]))})
    IN  SubSeq(sorted, 1, k) \o <<x>> \o SubSeq(sorted, k + 1, Len(sorted))

RECURSIVE SortByKey(_)
SortByKey(s) ==
    IF s = <<>> THEN <<>>
    ELSE InsertByKey(s[Len(s)], SortByKey(SubSeq(s, 1, Len(s) - 1)))

\* Path.suffix: from the last dot on, empty without a dot or for a leading dot
Suffix(name) ==
    LET dots == {i \in 2..Len(name) : name[i] = "."}
    IN  IF dots = {} THEN <<>>
        ELSE LET d == CHOOSE i \in dots : \A j \in dots : j <= i
             IN  SubSeq(name, d, Len(name))

\* A directory named like an audio file
F_cd == << "c", "d", ".", "m", "p", "3" >>

\* The entries of the audio directories that are directories; every other
\* entry is a regular file
Subdirectories == {F_cd}

\* Path.is_file() on the entry `name` of the audio directory
is_file(name) == name \notin Subdirectories

\* An inventory that takes every entry of the folder, whatever its extension
find_audio_files_any_extension(listing) ==
    IF \E i \in 1..Len(listing) : natural_sort_key_raises(listing[i])
    THEN [err |-> "ValueError", val |-> <<>>]
    ELSE [err |-> "", val |-> SortByKey(listing)]

\* An inventory that takes directories too
find_audio_files_with_directories(listing) ==
    LET IsAudio(f) == Lower(Suffix(f)) \in AUDIO_EXTENSIONS
        found == SelectSeq(listing, IsAudio)
    IN  IF \E i \in 1..Len(found) : natural_sort_key_raises(found[i])
        THEN [err |-> "ValueError", val |-> <<>>]
        ELSE [err |-> "", val |-> SortByKey(found)]

\* find_audio_files(folder), `listing` being the order in which
\* folder.iterdir() yields the folder's entries
find_audio_files(listing) ==
    LET IsAudio(f) == is_file(f) /\ Lower(Suffix(f)) \in AUDIO_EXTENSIONS
        found == SelectSeq(listing, IsAudio)
    IN  IF \E i \in 1..Len(found) : natural_sort_key_raises(found[i])
        THEN [err |-> "ValueError", val |-> <<>>]
        ELSE [err |-> "", val |-> SortByKey(found)]

\* Path.stem: the name without its suffix
Stem(name) == SubSeq(name, 1, Len(name) - Len(Suffix(name)))

\* str.split(): the maximal runs of non-blank characters
RECURSIVE SplitWords(_)
SplitWords(s) ==
    IF s = <<>> THEN <<>>
    ELSE LET rest == SplitWords(SubSeq(s, 2, Len(s)))
         IN  IF s[1] = " " THEN rest
             ELSE IF Len(s) > 1 /\ s[2] # " "
                  THEN <<(<<s[1]>> \o rest[1])>> \o SubSeq(rest, 2, Len(rest))
                  ELSE << <<s[1]>> >> \o rest

\* str.capitalize()
Capitalize(w) == [i \in 1..Len(w) |-> IF i = 1 THEN UpperChar(w[i]) ELSE LowerChar(w[i])]

\* " ".join(words)
RECURSIVE JoinWords(_)
JoinWords(ws) ==
    IF ws = <<>> THEN <<>>
    ELSE IF Len(ws) = 1 THEN ws[1]
    ELSE ws[1] \o <<" ">> \o JoinWords(SubSeq(ws, 2, Len(ws)))

\* A title whose words keep the case they have in the file name
clean_track_title_keeping_case(filename) ==
    LET stem == Stem(filename)
        name == [i \in 1..Len(stem) |-> IF stem[i] \in {"_", "-"} THEN " " ELSE stem[i]]
    IN  JoinWords(SplitWords(name))

clean_track_title(filename) ==
    LET stem == Stem(filename)
        name == [i \in 1..Len(stem) |-> IF stem[i] \in {"_", "-"} THEN " " ELSE stem[i]]
        ws   == SplitWords(name)
    IN  JoinWords([i \in 1..Len(ws) |-> Capitalize(ws[i])])

\* ------------------------------------------------------------------------
\* Work layout (paths.py): a path is <<directory, file name>>
\* ------------------------------------------------------------------------

audio_dir   == "audio"
whisper_dir == "artifacts/whisper"
curated_dir == "artifacts/curated"
bundle_root == "bundle_root"

BundleJson == << "b", "u", "n", "d", "l", "e", ".", "j", "s", "o", "n" >>
BundleYaml == << "b", "u", "n", "d", "l", "e", ".", "y", "a", "m", "l" >>

manifest_path == <<bundle_root, BundleJson>>
config_path   == <<bundle_root, BundleYaml>>

\* A bundle.yaml outside the work root, for --config
other_config_path == <<"elsewhere", BundleYaml>>

\* The default publish_config_path, relative to the working directory
PublishYaml ==
    << "b", "u", "n", "d", "l", "e", "_", "p", "u", "b", "l", "i", "s", "h", "_",
       "c", "o", "n", "f", "i", "g", ".", "y", "a", "m", "l" >>
publish_config_path == << ".", PublishYaml >>

Kind_whisper == << "w", "h", "i", "s", "p", "e", "r" >>
Kind_curated == << "c", "u", "r", "a", "t", "e", "d" >>

\* ------------------------------------------------------------------------
\* JSON documents and the stage cache (artifacts.py)
\* ------------------------------------------------------------------------

\* A Python value that json.loads can return: None (JSON null), a dict or a
\* list. A dict is known by its set of keys and by the values of the keys
\* "transcripts" and "clips"; a list by its length.
PyNone == [t |-> "none", keys |-> {}, transcripts |-> <<>>, clips |-> <<>>, n |-> 0]

JDict(keys, transcripts, clips) ==
    [t |-> "dict", keys |-> keys, transcripts |-> transcripts, clips |-> clips, n |-> 0]

JList(n) == [t |-> "list", keys |-> {}, transcripts |-> <<>>, clips |-> <<>>, n |-> n]

\* bool(v)
Truthy(v) ==
    CASE v.t = "dict" -> v.keys # {}
      [] v.t = "list" -> v.n > 0
      [] OTHER -> FALSE

\* The outcome of a call: a value, or the name of the exception it raised.
Ok(v) == [err |-> "", val |-> v]
Raise(e) == [err |-> e, val |-> PyNone]

\* The text of a file: the serialisation of a document, or text that is not JSON.
json_dumps(obj) == [valid |-> TRUE, doc |-> obj]
NotJson == [valid |-> FALSE, doc |-> PyNone]

json_loads(text) == IF text.valid THEN Ok(text.doc) ELSE Raise("JSONDecodeError")

\* <dir>/<audio_filename>.<kind>.json
artifact_path(dir_path, audio_filename, kind) ==
    <<dir_path, audio_filename \o <<".">> \o kind \o << ".", "j", "s", "o", "n" >> >>

\* A cache read that takes a file that is not JSON for a missing one
load_json_if_exists_lenient(files, path) ==
    IF path \notin DOMAIN files \/ ~files[path].valid THEN Ok(PyNone)
    ELSE json_loads(files[path])

load_json_if_exists(files, path) ==
    IF path \notin DOMAIN files THEN Ok(PyNone) ELSE json_loads(files[path])

\* path.write_text(...): the file is created or fully overwritten
write_text(files, path, text) ==
    [p \in DOMAIN files \cup {path} |-> IF p = path THEN text ELSE files[p]]

\* A write that makes the parent directory anew, without the files it held
write_json_fresh_dir(files, path, obj) ==
    [p \in {q \in DOMAIN files : q[1] # path[1]} \cup {path} |->
        IF p = path THEN json_dumps(obj) ELSE files[p]]

write_json(files, path, obj) == write_text(files, path, json_dumps(obj))

\* What write_json leaves in the file: the whole text, or, when the process
\* is killed while it writes, a truncated text that is not JSON
write_outcomes(environ, obj) ==
    {json_dumps(obj)} \cup (IF environ.kill THEN {NotJson} ELSE {})

\* ------------------------------------------------------------------------
\* Bundle configuration (config.py)
\* ------------------------------------------------------------------------

\* None, where the value is a string of characters
NoneChars == << "None" >>
\* None, where the value is a plain string
NoneStr == "None"

\* A parsed YAML document is a record of values with the set `keys` of the
\* keys that are present and not null.

\* _require(d, key)
require(d, key) == IF key \notin d.keys THEN Raise("ValueError") ELSE Ok(d[key])

\* d.get(key) or default
get_or(d, key, default) == IF key \notin d.keys \/ d[key] = "" THEN default ELSE d[key]

\* BundleConfig.load on the parsed YAML document `data`
BundleConfig_load(data) ==
    IF require(data, "bundle_id").err # "" THEN Raise("ValueError")
    ELSE IF require(data, "source_s3").err # "" THEN Raise("ValueError")
    ELSE IF require(data, "language_code").err # "" THEN Raise("ValueError")
    ELSE LET bundle_title == get_or(data, "bundle_title", data.bundle_id)
         IN  Ok([bundle_id     |-> data.bundle_id,
                 source_s3     |-> data.source_s3,
                 language_code |-> data.language_code,
                 bundle_title  |-> bundle_title,
                 pack_title    |-> get_or(data, "pack_title", bundle_title),
                 author        |-> NoneStr,
                 cover_url     |-> NoneStr,
                 cover_filename |-> NoneStr,
                 whisper_model |-> "base",
                 gpt_model     |-> "gpt-4o-mini",
                 publish_config_path |-> publish_config_path])

NoConfig ==
    [bundle_id |-> "", source_s3 |-> "", language_code |-> NoneChars, bundle_title |-> "",
     pack_title |-> "", author |-> NoneStr, cover_url |-> NoneStr, cover_filename |-> NoneStr,
     whisper_model |-> "", gpt_model |-> "", publish_config_path |-> publish_config_path]

\* cfg = BundleConfig.load(cfg_path): read_text fails on a missing file
LoadConfig(files, cfg_path) ==
    IF cfg_path \notin DOMAIN files THEN Raise("FileNotFoundError")
    ELSE BundleConfig_load(files[cfg_path])

PublishKeys ==
    {"publish_bucket", "publish_prefix_template", "cloudfront_https_base",
     "cloudfront_prefix_template"}

\* PublishConfig.load on the parsed YAML document `data`
PublishConfig_load(data) ==
    IF \E k \in PublishKeys : require(data, k).err # "" THEN Raise("ValueError")
    ELSE Ok([publish_bucket |-> data.publish_bucket,
             publish_prefix_template |-> data.publish_prefix_template,
             cloudfront_https_base |-> data.cloudfront_https_base,
             cloudfront_prefix_template |-> data.cloudfront_prefix_template])

NoPublishConfig ==
    [publish_bucket |-> "", publish_prefix_template |-> "", cloudfront_https_base |-> "",
     cloudfront_prefix_template |-> ""]

LoadPublishConfig(files, path) ==
    IF path \notin DOMAIN files THEN Raise("FileNotFoundError")
    ELSE PublishConfig_load(files[path])

\* A template with {bundle_id} filled in
Format(template, bundle_id) == [template |-> template, bundle_id |-> bundle_id]

\* _audio_https_url: base + cloudfront_prefix(bundle_id) + "/" + filename
audio_https_url(publish, bundle_id, filename) ==
    [base |-> publish.cloudfront_https_base,
     prefix |-> Format(publish.cloudfront_prefix_template, bundle_id),
     file |-> filename]

\* ------------------------------------------------------------------------
\* Audio duration (audio.py)
\* ------------------------------------------------------------------------

\* An audio file holds its duration in microseconds, or cannot be read.
Audio(readable, us) == [readable |-> readable, us |-> us, dir |-> FALSE]

\* An entry of the audio directory that is a directory
Directory == [readable |-> FALSE, us |-> 0, dir |-> TRUE]

\* A duration read that lets the failure to read the file through
get_audio_duration_ms_or_raise(environ, files, audio_path) ==
    IF ~environ.soundfile THEN Raise("ImportError")
    ELSE IF files[audio_path].readable THEN Ok(files[audio_path].us \div 1000)
    ELSE Raise("RuntimeError")

\* int(info.duration * 1000), and 0 when the file cannot be read; ImportError
\* when the soundfile module is not installed
get_audio_duration_ms(environ, files, audio_path) ==
    IF ~environ.soundfile THEN Raise("ImportError")
    ELSE IF files[audio_path].readable THEN Ok(files[audio_path].us \div 1000)
    ELSE Ok(0)

\* ------------------------------------------------------------------------
\* The external collaborators (whisper_tools.py, openai_tools.py)
\* ------------------------------------------------------------------------

\* A hint that is the whole language tag
whisper_lang_whole_tag(language_code) ==
    IF language_code = <<>> \/ language_code = NoneChars THEN NoneChars ELSE language_code

\* The language hint given to the speech engine
whisper_lang(language_code) ==
    IF language_code = <<>> \/ language_code = NoneChars THEN NoneChars
    ELSE LET dashes == {i \in 1..Len(language_code) : language_code[i] = "-"}
         IN  IF dashes = {} THEN language_code
             ELSE SubSeq(language_code, 1, (CHOOSE i \in dashes : \A j \in dashes : i <= j) - 1)

\* transcribe_with_whisper: one call of the engine, whose result or failure is
\* `outcome`
transcribe_with_whisper(audio_path, model_name, language_code, outcome) ==
    IF outcome.err # "" THEN [err |-> outcome.err, val |-> PyNone, hint |-> whisper_lang(language_code)]
    ELSE [err |-> "", val |-> outcome.val, hint |-> whisper_lang(language_code)]

\* The text of a chat completion is a sequence of tokens: a code fence ```,
\* the word json, or a body.
TokFence == [k |-> "fence", text |-> NotJson]
TokJson  == [k |-> "json", text |-> NotJson]
TokBody(text) == [k |-> "body", text |-> text]

\* The fence stripping of curate_with_openai
strip_fences(content) ==
    LET s1 == IF Len(content) >= 2 /\ content[1] = TokFence /\ content[2] = TokJson
              THEN SubSeq(content, 3, Len(content)) ELSE content
        s2 == IF Len(s1) >= 1 /\ s1[1] = TokFence THEN SubSeq(s1, 2, Len(s1)) ELSE s1
        s3 == IF Len(s2) >= 1 /\ s2[Len(s2)] = TokFence THEN SubSeq(s2, 1, Len(s2) - 1) ELSE s2
    IN  s3

\* json.loads on what is left
loads_tokens(toks) ==
    IF Len(toks) = 1 /\ toks[1].k = "body" THEN json_loads(toks[1].text)
    ELSE Raise("JSONDecodeError")

\* curate_with_openai: `reply` is what the service does: how the first request
\* ends ("ok", "unsupported": the max_completion_tokens parameter is rejected,
\* "error"), how the second one ends, and the text of the completion.
\* A client that sends its request again after any failure
curate_with_openai_retry_any(environ, reply) ==
    IF ~environ.api_key THEN [err |-> "RuntimeError", val |-> PyNone, requests |-> <<>>]
    ELSE IF reply.first = "error"
         THEN [err |-> "APIError", val |-> PyNone, requests |-> <<"error", "error">>]
    ELSE IF reply.first = "unsupported" /\ ~reply.retry_ok
         THEN [err |-> "APIError", val |-> PyNone, requests |-> <<"unsupported", "error">>]
    ELSE LET r == loads_tokens(strip_fences(reply.content))
         IN  [err |-> r.err, val |-> r.val,
              requests |-> IF reply.first = "unsupported" THEN <<"unsupported", "ok">>
                           ELSE <<"ok">>]

\* `requests` is how each chat completion request of the call ended, in order
curate_with_openai(environ, reply) ==
    IF ~environ.api_key THEN [err |-> "RuntimeError", val |-> PyNone, requests |-> <<>>]
    ELSE IF reply.first = "error"
         THEN [err |-> "APIError", val |-> PyNone, requests |-> <<"error">>]
    ELSE IF reply.first = "unsupported" /\ ~reply.retry_ok
         THEN [err |-> "APIError", val |-> PyNone, requests |-> <<"unsupported", "error">>]
    ELSE LET r == loads_tokens(strip_fences(reply.content))
         IN  [err |-> r.err, val |-> r.val,
              requests |-> IF reply.first = "unsupported" THEN <<"unsupported", "ok">>
                           ELSE <<"ok">>]

\* ------------------------------------------------------------------------
\* The assembler's data model (models.py, assemble.py)
\* ------------------------------------------------------------------------

\* uuid4() is modelled by a generator: the k-th identifier drawn from `gen`
\* after gen.next were drawn before. Two draws of one run differ.
uuid4(gen, k) == [salt |-> gen.salt, n |-> gen.next + k]

Clip(id, startMs, endMs, kind, title, languageCode) ==
    [id |-> id, startMs |-> startMs, endMs |-> endMs, kind |-> kind, title |-> title,
     repeats |-> NoneStr, startSpeed |-> NoneStr, endSpeed |-> NoneStr,
     languageCode |-> languageCode]

PracticeSet(id, trackId, displayOrder, title, clips) ==
    [id |-> id, trackId |-> trackId, displayOrder |-> displayOrder, title |-> title,
     clips |-> clips, isFavorite |-> FALSE]

TranscriptSpan(startMs, endMs, text, speaker, languageCode) ==
    [startMs |-> startMs, endMs |-> endMs, text |-> text, speaker |-> speaker,
     languageCode |-> languageCode]

\* durationMs is an int or None
SomeInt(n) == [some |-> TRUE, v |-> n]
NoneInt == [some |-> FALSE, v |-> 0]

\* The displayOrder of the full-track set and of the curated set
FULL_TRACK_ORDER == 0
\* A curated set with the display order of the full-track set
CURATED_ORDER_as_full == FULL_TRACK_ORDER
CURATED_ORDER == 1

\* A full-track set that gets its clip for a zero duration too
_full_track_practice_set_zero_clip(duration_ms, language_code, gen) ==
    IF duration_ms < 0
    THEN PracticeSet(uuid4(gen, 1), uuid4(gen, 0), FULL_TRACK_ORDER, "Full Track", <<>>)
    ELSE PracticeSet(uuid4(gen, 1), uuid4(gen, 0), FULL_TRACK_ORDER, "Full Track",
                     << Clip(uuid4(gen, 2), 0, duration_ms, "drill", "Full Track", NoneChars) >>)

\* _full_track_practice_set; it draws the placeholder, the set's id and then
\* the clip's id
_full_track_practice_set(duration_ms, language_code, gen) ==
    IF duration_ms <= 0
    THEN PracticeSet(uuid4(gen, 1), uuid4(gen, 0), FULL_TRACK_ORDER, "Full Track", <<>>)
    ELSE PracticeSet(uuid4(gen, 1), uuid4(gen, 0), FULL_TRACK_ORDER, "Full Track",
                     << Clip(uuid4(gen, 2), 0, duration_ms, "drill", "Full Track", NoneChars) >>)

\* The number of identifiers a practice set took from the generator
UuidsDrawn(ps) == 2 + Len(ps.clips)

\* curated.get(key, []) or []
get_list(curated, key) ==
    IF key \notin curated.keys THEN <<>>
    ELSE IF key = "transcripts" THEN curated.transcripts
    ELSE curated.clips

\* A number of a JSON document is kept in tenths: 15 is 1.5, 20 is the int 2
JsonInt(n) == 10 * n

\* int(x) of a number: the fraction is cut off, towards zero
py_int(x) == IF x >= 0 THEN x \div 10 ELSE -((-x) \div 10)

\* A conversion that tags every clip with the language, whatever its kind
_curated_to_practice_set_tag_all(curated, language_code, gen) ==
    IF curated.t # "dict"
    THEN [err |-> "AttributeError", transcripts |-> <<>>,
          ps |-> PracticeSet(uuid4(gen, 0), uuid4(gen, 0), CURATED_ORDER, "Practice Set", <<>>)]
    ELSE LET ts == get_list(curated, "transcripts")
             cs == get_list(curated, "clips")
         IN  [err |-> "",
              transcripts |->
                  [i \in 1..Len(ts) |->
                      TranscriptSpan(py_int(ts[i].startMs), py_int(ts[i].endMs), ts[i].text,
                                     ts[i].speaker, language_code)],
              ps |-> PracticeSet(uuid4(gen, Len(cs) + 1), uuid4(gen, 0), CURATED_ORDER,
                         "Practice Set",
                         [i \in 1..Len(cs) |->
                             Clip(uuid4(gen, i), py_int(cs[i].startMs), py_int(cs[i].endMs),
                                  cs[i].kind, cs[i].title,
                                  language_code)])]

\* A conversion that keeps the length of a clip where its end offset belongs
_curated_to_practice_set_clip_lengths(curated, language_code, gen) ==
    IF curated.t # "dict"
    THEN [err |-> "AttributeError", transcripts |-> <<>>,
          ps |-> PracticeSet(uuid4(gen, 0), uuid4(gen, 0), CURATED_ORDER, "Practice Set", <<>>)]
    ELSE LET ts == get_list(curated, "transcripts")
             cs == get_list(curated, "clips")
         IN  [err |-> "",
              transcripts |->
                  [i \in 1..Len(ts) |->
                      TranscriptSpan(py_int(ts[i].startMs), py_int(ts[i].endMs), ts[i].text,
                                     ts[i].speaker, language_code)],
              ps |-> PracticeSet(uuid4(gen, Len(cs) + 1), uuid4(gen, 0), CURATED_ORDER,
                         "Practice Set",
                         [i \in 1..Len(cs) |->
                             Clip(uuid4(gen, i), py_int(cs[i].startMs),
                                  py_int(cs[i].endMs) - py_int(cs[i].startMs),
                                  cs[i].kind, cs[i].title,
                                  IF cs[i].kind = "drill" THEN language_code ELSE NoneChars)])]

\* _curated_to_practice_set; it draws the placeholder, the clips' ids in
\* order and then the set's id. `curated` is a value that is true in Python;
\* one that is no dict has no get().
_curated_to_practice_set(curated, language_code, gen) ==
    IF curated.t # "dict"
    THEN [err |-> "AttributeError", transcripts |-> <<>>,
          ps |-> PracticeSet(uuid4(gen, 0), uuid4(gen, 0), CURATED_ORDER, "Practice Set", <<>>)]
    ELSE LET ts == get_list(curated, "transcripts")
             cs == get_list(curated, "clips")
         IN  [err |-> "",
              transcripts |->
                  [i \in 1..Len(ts) |->
                      TranscriptSpan(py_int(ts[i].startMs), py_int(ts[i].endMs), ts[i].text,
                                     ts[i].speaker, language_code)],
              ps |-> PracticeSet(uuid4(gen, Len(cs) + 1), uuid4(gen, 0), CURATED_ORDER,
                         "Practice Set",
                         [i \in 1..Len(cs) |->
                             Clip(uuid4(gen, i), py_int(cs[i].startMs), py_int(cs[i].endMs),
                                  cs[i].kind, cs[i].title,
                                  IF cs[i].kind = "drill" THEN language_code ELSE NoneChars)])]

BundleTrack(filename, title, url, durationMs, languageCode, practiceSets, transcripts) ==
    [id |-> filename, title |-> title, url |-> url, filename |-> filename,
     durationMs |-> durationMs, languageCode |-> languageCode,
     practiceSets |-> practiceSets, transcripts |-> transcripts]

\* A Track whose curated set takes the place of the full-track set
practice_sets_curated_only(full, has_curated, curated_set) ==
    IF has_curated /\ curated_set.clips # <<>> THEN <<curated_set>> ELSE <<full>>

\* A Track that gets the curated set even when it has no clips
practice_sets_even_empty(full, has_curated, curated_set) ==
    IF has_curated THEN <<full, curated_set>> ELSE <<full>>

\* The practiceSets of a Track: the full-track set, and behind it the curated
\* set when there is one and it has clips
practice_sets(full, has_curated, curated_set) ==
    IF has_curated /\ curated_set.clips # <<>> THEN <<full, curated_set>> ELSE <<full>>

\* One iteration of assemble_manifest's loop over the audio files, for the
\* file `name` with the loaded curated artifact `curated`
build_track(config, publish, name, duration_ms, curated, gen) ==
    LET full == _full_track_practice_set(duration_ms, config.language_code, gen)
        gen2 == [gen EXCEPT !.next = @ + UuidsDrawn(full)]
        cur  == _curated_to_practice_set(curated, config.language_code, gen2)
        use  == Truthy(curated)
    IN  [err |-> IF use THEN cur.err ELSE "",
         drawn |-> UuidsDrawn(full) + (IF use THEN UuidsDrawn(cur.ps) ELSE 0),
         track |-> BundleTrack(name, clean_track_title(name),
                               audio_https_url(publish, config.bundle_id, name),
                               IF duration_ms > 0 THEN SomeInt(duration_ms) ELSE NoneInt,
                               config.language_code,
                               practice_sets(full, use, cur.ps),
                               IF use THEN cur.transcripts ELSE <<>>)]

BundlePack(config, tracks) ==
    [id |-> config.bundle_id, title |-> config.pack_title, author |-> config.author,
     coverUrl |-> config.cover_url, coverFilename |-> config.cover_filename,
     tracks |-> tracks]

BundleManifest(config, tracks) ==
    [id |-> config.bundle_id, title |-> config.bundle_title,
     packs |-> << BundlePack(config, tracks) >>]

\* ------------------------------------------------------------------------
\* The worlds the pipeline is run in
\* ------------------------------------------------------------------------

F_b2    == << "b", "2", ".", "m", "p", "3" >>
F_b10   == << "b", "1", "0", ".", "m", "p", "3" >>
F_B1    == << "B", "1", ".", "M", "P", "3" >>
F_notes == << "n", "o", "t", "e", "s", ".", "t", "x", "t" >>
F_b02   == << "b", "0", "2", ".", "m", "p", "3" >>
F_a1sup == << "a", "1", "²", "2", ".", "m", "p", "3" >>
F_ep    == << "e", "p", "_", "0", "1", "-", "i", "n", "t", "r", "o", ".", "m", "p", "3" >>
F_my    == << "M", "y", "_", "_", "B", "I", "G", "-", ".", "W", "A", "V" >>

Lang_koKR == << "k", "o", "-", "K", "R" >>
Lang_en == << "e", "n" >>
Lang_zhHantTW == << "z", "h", "-", "H", "a", "n", "t", "-", "T", "W" >>

\* The longest audio file, in milliseconds
MaxDurationMs == 5

GoodYaml ==
    [keys |-> {"bundle_id", "source_s3", "language_code", "bundle_title"},
     bundle_id |-> "demo", source_s3 |-> "s3://src/demo", language_code |-> Lang_koKR,
     bundle_title |-> "Demo", pack_title |-> ""]

\* No document
NoYaml == [GoodYaml EXCEPT !.keys = {}]

\* A configuration kept outside the work root, with another language tag and
\* other titles
OtherYaml ==
    [GoodYaml EXCEPT !.language_code = Lang_en, !.bundle_title = "Other",
                     !.pack_title = "Other pack", !.keys = @ \cup {"pack_title"}]

\* A language tag of three subtags, and an empty one
ThreePartYaml == [GoodYaml EXCEPT !.language_code = Lang_zhHantTW]
EmptyLangYaml == [GoodYaml EXCEPT !.language_code = <<>>]

\* bundle.yaml without language_code
BadYaml == [GoodYaml EXCEPT !.keys = @ \ {"language_code"}]

\* Two audio files and a text file; b2.mp3 cannot be read by soundfile
TwoFiles ==
    (F_b2 :> Audio(FALSE, 0) @@ F_b10 :> Audio(TRUE, MaxDurationMs * 1000)
        @@ F_notes :> Audio(FALSE, 0))

\* One audio file of less than a millisecond
OneFile == (F_B1 :> Audio(TRUE, 400))

NoAudio == (F_notes :> Audio(FALSE, 0))

\* Two audio files with the same sort key
SameKey == (F_b2 :> Audio(TRUE, 1000) @@ F_b02 :> Audio(TRUE, 2000))

\* An audio file with a superscript digit behind a digit in its name
Superscript == (F_a1sup :> Audio(TRUE, 1000))

\* One audio file whose name has an underscore and a hyphen
Episode == (F_ep :> Audio(TRUE, 3000))
\* One audio file whose name has capitals, two underscores in a row and a
\* hyphen at the end of the stem
Shouting == (F_my :> Audio(TRUE, 2000))

\* An audio file beside a file that is named like the manifest
Stray == (F_B1 :> Audio(TRUE, 400) @@ BundleJson :> Audio(FALSE, 0))

\* An audio file beside a directory named like an audio file
F_old == << "o", "l", "d", ".", "m", "p", "3" >>
Album == (F_b10 :> Audio(TRUE, 2000) @@ F_cd :> Directory)

GoodPublishYaml ==
    [keys |-> PublishKeys, publish_bucket |-> "bucket",
     publish_prefix_template |-> "bundles/{bundle_id}",
     cloudfront_https_base |-> "https://cdn.example",
     cloudfront_prefix_template |-> "/bundles/{bundle_id}"]

\* bundle_publish_config.yaml without publish_bucket
BadPublishYaml == [GoodPublishYaml EXCEPT !.keys = @ \ {"publish_bucket"}]

\* The file system of a world before any stage has run: bundle.yaml,
\* bundle_publish_config.yaml and the audio directory
InitialFiles(w) ==
    [p \in {config_path, publish_config_path} \cup {<<audio_dir, f>> : f \in DOMAIN w.audio}
            \cup (IF w.other = NoYaml THEN {} ELSE {other_config_path})
            \cup DOMAIN w.cache |->
        IF p \in DOMAIN w.cache THEN w.cache[p]
        ELSE IF p = config_path THEN w.yaml
        ELSE IF p = publish_config_path THEN w.publish
        ELSE IF p = other_config_path THEN w.other
        ELSE w.audio[p[2]]]

\* What the speech engine returns: a dict with the keys text, segments and
\* language, here with n segments
WhisperResult(n) == [JDict({"text", "segments", "language"}, <<>>, <<>>) EXCEPT !.n = n]

WhisperOutcomes == {Raise("RuntimeError"), Ok(WhisperResult(0)), Ok(WhisperResult(2))}

\* Documents the curation service can answer with
D_empty   == JDict({}, <<>>, <<>>)
D_noclips ==
    JDict({"transcripts", "clips"},
          << [startMs |-> JsonInt(0), endMs |-> JsonInt(2), text |-> "annyeong", speaker |-> "Speaker 1"] >>,
          <<>>)
\* A document without a "clips" key
D_transcripts ==
    JDict({"transcripts"},
          << [startMs |-> JsonInt(0), endMs |-> JsonInt(2), text |-> "annyeong", speaker |-> "Speaker 1"] >>,
          <<>>)
D_full ==
    JDict({"transcripts", "clips"},
          << [startMs |-> JsonInt(1), endMs |-> JsonInt(3), text |-> "annyeong",
              speaker |-> "Speaker 1"] >>,
          << [startMs |-> JsonInt(0), endMs |-> JsonInt(1), kind |-> "skip",
              title |-> "Intro music"],
             [startMs |-> JsonInt(1), endMs |-> JsonInt(3), kind |-> "drill",
              title |-> "Sentence 1"] >>)

\* A document with a clip that ends where it starts and a clip of a kind
\* that is none of drill, skip, noise
D_badclips ==
    JDict({"transcripts", "clips"}, <<>>,
          << [startMs |-> JsonInt(3), endMs |-> JsonInt(3), kind |-> "drill",
              title |-> "Sentence 1"],
             [startMs |-> JsonInt(3), endMs |-> JsonInt(4), kind |-> "music",
              title |-> "Outro"] >>)

\* A document whose offsets are not whole milliseconds: 0.5 to 2.5
D_fraction ==
    JDict({"transcripts", "clips"},
          << [startMs |-> 5, endMs |-> 25, text |-> "annyeong", speaker |-> "Speaker 1"] >>,
          << [startMs |-> 5, endMs |-> 25, kind |-> "drill", title |-> "Sentence 1"] >>)

\* The artifacts of old.mp3, an audio file that was transcribed and curated
\* and then taken out of the audio directory
D_old ==
    JDict({"transcripts", "clips"},
          << [startMs |-> JsonInt(0), endMs |-> JsonInt(1), text |-> "old", speaker |-> "Speaker 1"] >>,
          << [startMs |-> JsonInt(0), endMs |-> JsonInt(1), kind |-> "drill", title |-> "Old"] >>)

LeftoverCache ==
    (artifact_path(whisper_dir, F_old, Kind_whisper) :> json_dumps(WhisperResult(2))
        @@ artifact_path(curated_dir, F_old, Kind_curated) :> json_dumps(D_old))

Reply(first, retry_ok, content) == [first |-> first, retry_ok |-> retry_ok, content |-> content]

Plain(doc) == << TokBody(json_dumps(doc)) >>
Fenced(doc) == << TokFence, TokJson, TokBody(json_dumps(doc)), TokFence >>

\* What the curation service does in the world with one audio file ...
CuratorReplies ==
    { Reply("error", FALSE, <<>>),
      Reply("unsupported", FALSE, <<>>),
      Reply("unsupported", TRUE, Plain(D_noclips)),
      Reply("ok", FALSE, << TokBody(NotJson) >>),
      Reply("ok", FALSE, Plain(D_empty)),
      Reply("ok", FALSE, Plain(D_noclips)),
      Reply("ok", FALSE, Plain(D_transcripts)),
      Reply("ok", FALSE, Plain(D_fraction)),
      Reply("ok", FALSE, Plain(D_badclips)),
      Reply("ok", FALSE, Fenced(D_full)),
      Reply("ok", FALSE, Plain(JList(1))),
      Reply("ok", FALSE, Plain(PyNone)) }

\* ... and in the world with two
FewReplies ==
    { Reply("error", FALSE, <<>>),
      Reply("ok", FALSE, Plain(D_empty)),
      Reply("ok", FALSE, Plain(D_noclips)),
      Reply("ok", FALSE, Fenced(D_full)),
      Reply("ok", FALSE, Plain(JList(1))) }

\* The values uuid4 draws differ from run to run
Salts == {"r", "s"}

\* The process environment and what the collaborators may do: soundfile is
\* installed, OPENAI_API_KEY is set, the outcomes of a transcription, the
\* replies of the curation service, the values uuid4 draws
GoodEnv ==
    [soundfile |-> TRUE, api_key |-> TRUE, collaborators |-> "all", aws |-> "down",
     qrcode |-> FALSE, kill |-> FALSE]

\* An environment in which a stage process can be killed while it writes an
\* artifact
WithKill(environ) == [environ EXCEPT !.kill = TRUE]

\* An environment set up for publishing: the qrcode module is installed and
\* the destination store takes every upload ("ok") or may refuse one ("flaky");
\* without the set-up every upload fails ("down")
WithPublishing(environ, aws) == [environ EXCEPT !.aws = aws, !.qrcode = TRUE]

\* How an upload can end in an environment: TRUE when the object is stored
UploadOutcomes(environ) ==
    CASE environ.aws = "ok" -> {TRUE}
      [] environ.aws = "flaky" -> {TRUE, FALSE}
      [] OTHER -> {FALSE}

FewEnv ==
    [GoodEnv EXCEPT !.collaborators = "few"]

\* One outcome of a transcription and one reply of the curation service
OneEnv ==
    [GoodEnv EXCEPT !.collaborators = "one"]

\* As OneEnv, but the speech engine can fail
EngineEnv ==
    [GoodEnv EXCEPT !.collaborators = "engine"]

\* The speech engine can fail; the curation service can fail, answer with a
\* document, or answer with the JSON text null
NullEnv ==
    [GoodEnv EXCEPT !.collaborators = "null"]

\* What the collaborators may do in an environment: the outcomes of a
\* transcription, the replies of the curation service, the values uuid4 draws
WhisperOf(environ) ==
    CASE environ.collaborators = "all" -> WhisperOutcomes
      [] environ.collaborators \in {"few", "engine", "null"} ->
             {Raise("RuntimeError"), Ok(WhisperResult(2))}
      [] OTHER -> {Ok(WhisperResult(2))}

RepliesOf(environ) ==
    CASE environ.collaborators = "all" -> CuratorReplies
      [] environ.collaborators = "few" -> FewReplies
      [] environ.collaborators = "null" ->
             { Reply("error", FALSE, <<>>),
               Reply("ok", FALSE, Fenced(D_full)),
               Reply("ok", FALSE, Plain(PyNone)) }
      [] OTHER -> {Reply("ok", FALSE, Fenced(D_full))}

SaltsOf(environ) == IF environ.collaborators = "all" THEN Salts ELSE {"r"}

\* A world has no second bundle configuration unless WithOther gives it one
World(yaml, publish, environ, audio) ==
    [yaml |-> yaml, publish |-> publish, env |-> environ, audio |-> audio, other |-> NoYaml,
     cache |-> << >>]

WithOther(w, yaml) == [w EXCEPT !.other = yaml]

\* A world whose cache holds artifacts of earlier runs
WithCache(w, files) == [w EXCEPT !.cache = files]

Worlds ==
    { World(GoodYaml, GoodPublishYaml, FewEnv, TwoFiles),
      World(GoodYaml, GoodPublishYaml, GoodEnv, OneFile),
      World(GoodYaml, GoodPublishYaml, WithPublishing(GoodEnv, "ok"), NoAudio),
      World(GoodYaml, GoodPublishYaml, EngineEnv, SameKey),
      World(GoodYaml, GoodPublishYaml, WithPublishing(OneEnv, "flaky"), TwoFiles),
      World(GoodYaml, GoodPublishYaml, OneEnv, Superscript),
      WithOther(World(GoodYaml, GoodPublishYaml, WithKill(WithPublishing(OneEnv, "ok")),
                      Episode),
                OtherYaml),
      WithOther(World(ThreePartYaml, GoodPublishYaml, OneEnv, Shouting), EmptyLangYaml),
      WithCache(World(GoodYaml, GoodPublishYaml, OneEnv, Album), LeftoverCache),
      World(GoodYaml, GoodPublishYaml, WithPublishing(OneEnv, "ok"), Stray),
      World(BadYaml, GoodPublishYaml, GoodEnv, OneFile),
      World(GoodYaml, BadPublishYaml, FewEnv, OneFile),
      World(GoodYaml, GoodPublishYaml, [FewEnv EXCEPT !.soundfile = FALSE], OneFile),
      World(GoodYaml, GoodPublishYaml, [FewEnv EXCEPT !.api_key = FALSE], OneFile) }

\* ------------------------------------------------------------------------
\* State
\* ------------------------------------------------------------------------

VARIABLES
    fs,           \* the file system: path -> content
    env,          \* the process environment and the collaborators' behaviour
    stage,        \* the stage command that runs or ran last
    force,        \* its --force flag
    cfg,          \* the loaded BundleConfig
    publish_cfg,  \* the loaded PublishConfig (assembler)
    audio_files,  \* the inventory of this invocation
    idx,          \* the position of the loop in audio_files
    done,         \* the done counter of the stage drivers
    status,       \* "none", "running", "ok" (exit code 0) or "failed"
    error,        \* the exception that ended the invocation
    calls,        \* per file: calls of the collaborator function by the driver
    requests,     \* per file: requests sent to the external service
    got,          \* per file: the document the collaborator returned last
    fs0,          \* the file system when the invocation started
    rerun,        \* this invocation repeats the one before it, which succeeded
    tracks,       \* the assembler's list of Tracks in memory
    gen,          \* the state of the uuid4 generator
    writes,       \* writes of the manifest file by this invocation
    config_arg,   \* the --config path of the invocation, NoPath without one
    hint,         \* the language hint of the invocation's last engine call
    dryrun,       \* the --dryrun flag of a publish run
    plan,         \* files_to_upload of a publish run
    store,        \* the destination store: key -> object
    store0,       \* the destination store when the invocation started
    uploads,      \* the keys this invocation uploaded, in order
    url,          \* the manifest URL this invocation printed
    deleted       \* the artifacts the operator deleted after a parse error

vars == << fs, env, stage, force, cfg, publish_cfg, audio_files, idx, done, status, error, calls,
           requests, got, fs0, rerun, tracks, gen, writes, config_arg, hint, dryrun, plan,
           store, store0, uploads, url, deleted >>

\* The variables of the publisher
publisher_vars == << dryrun, plan, store, store0, uploads, url >>

NoPath == << "", <<>> >>

\* The values of --config: none, or the path of a configuration that exists
ConfigArgs(files) == {NoPath} \cup ({other_config_path} \cap DOMAIN files)

\* cfg_path = args.config or wp.config_path
config_or_default(carg) == IF carg = NoPath THEN config_path ELSE carg

\* The config_path that scripts/assemble_manifest.py hands to
\* assemble_manifest(work_root=..., bundle_id=...): none
assemble_config_arg(carg) == NoPath
NoError == [name |-> "", msg |-> "", path |-> NoPath]
Error(name, msg, path) == [name |-> name, msg |-> msg, path |-> path]

NoGen == [salt |-> "", next |-> 0]

\* No engine call yet
NoHint == << "no call" >>

\* Nothing printed
NoUrl == [base |-> "", prefix |-> Format("", ""), file |-> <<>>]

\* The orders in which iterdir() can yield the entries of the audio directory
Orders(names) ==
    LET n == Cardinality(names)
    IN  {s \in [1..n -> names] : \A i, j \in 1..n : s[i] = s[j] => i = j}

\* Orders, tabulated over the audio directories of the worlds
OrdersTable == {[names |-> DOMAIN w.audio, orders |-> Orders(DOMAIN w.audio)] : w \in Worlds}

InitWorld(w) ==
    /\ fs = InitialFiles(w)
    /\ env = w.env
    /\ stage = "none"
    /\ force = FALSE
    /\ cfg = NoConfig
    /\ publish_cfg = NoPublishConfig
    /\ audio_files = <<>>
    /\ idx = 1
    /\ done = 0
    /\ status = "none"
    /\ error = NoError
    /\ calls = << >>
    /\ requests = << >>
    /\ got = << >>
    /\ fs0 = InitialFiles(w)
    /\ rerun = FALSE
    /\ tracks = <<>>
    /\ gen = NoGen
    /\ writes = 0
    /\ config_arg = NoPath
    /\ hint = NoHint
    /\ dryrun = FALSE
    /\ plan = <<>>
    /\ store = << >>
    /\ store0 = << >>
    /\ uploads = <<>>
    /\ url = NoUrl
    /\ deleted = {}

Init == \E w \in Worlds : InitWorld(w)

\* ------------------------------------------------------------------------
\* The stage drivers (scripts/transcribe_whisper.py, scripts/curate_llm.py)
\* ------------------------------------------------------------------------

\* find_audio_files, tabulated over the listings of the worlds' audio
\* directories
InventoryTable ==
    {[listing |-> l, found |-> find_audio_files(l)] :
        l \in UNION {Orders(DOMAIN w.audio) : w \in Worlds}}

Inventory(listing) == (CHOOSE r \in InventoryTable : r.listing = listing).found

\* For each audio directory, one order of iterdir() for every inventory that
\* its orders can give
ListingsTable ==
    {[names |-> r.names,
      listings |-> {l \in r.orders :
                       l = CHOOSE m \in r.orders : Inventory(m) = Inventory(l)}] :
        r \in OrdersTable}

Listings(files) ==
    LET names == {p[2] : p \in {q \in DOMAIN files : q[1] = audio_dir}}
    IN  (CHOOSE r \in ListingsTable : r.names = names).listings

\* A stage command up to its loop: load the configuration (the assembler
\* loads the publish configuration too), take the inventory
Begin(stg, frc, listing, carg) ==
    LET cfg_path == config_or_default(IF stg = "assemble" THEN assemble_config_arg(carg)
                                      ELSE carg)
        c == LoadConfig(fs, cfg_path)
        pc == IF stg = "assemble" /\ c.err = ""
              THEN LoadPublishConfig(fs, c.val.publish_config_path)
              ELSE Ok(NoPublishConfig)
        found == IF c.err # "" \/ pc.err # "" THEN [err |-> "", val |-> <<>>]
                 ELSE Inventory(listing)
        files == found.val
        e == IF c.err # "" THEN Error(c.err, "Missing required config field", cfg_path)
             ELSE IF pc.err # ""
                  THEN Error(pc.err, "Missing required config field", publish_config_path)
             ELSE IF found.err # ""
                  THEN Error(found.err, "invalid literal for int()", <<audio_dir, <<>> >>)
             ELSE IF files = <<>>
                  THEN Error("ValueError", "No audio files found", <<audio_dir, <<>> >>)
             ELSE NoError
    IN  /\ status # "running"
        /\ stage' = stg
        /\ force' = frc
        /\ config_arg' = carg
        /\ cfg' = IF c.err # "" THEN NoConfig ELSE c.val
        /\ publish_cfg' = IF pc.err # "" THEN NoPublishConfig ELSE pc.val
        /\ audio_files' = files
        /\ idx' = 1
        /\ done' = 0
        /\ status' = IF e.name # "" THEN "failed" ELSE "running"
        /\ error' = e
        /\ calls' = [f \in Range(files) |-> 0]
        /\ requests' = [f \in Range(files) |-> <<>>]
        /\ got' = [f \in Range(files) |-> PyNone]
        /\ fs0' = fs
        /\ rerun' = (stage = stg /\ status = "ok" /\ ~force /\ ~frc)
        /\ tracks' = <<>>
        /\ writes' = 0
        /\ hint' = NoHint
        /\ dryrun' = FALSE
        /\ plan' = <<>>
        /\ store0' = store
        /\ uploads' = <<>>
        /\ url' = NoUrl
        /\ UNCHANGED << deleted, fs, env, store >>

\* A loop that counts a file it skips or processes twice
Step_counting_twice(files2, done2, e, calls2, requests2, got2, hint2) ==
    /\ fs' = files2
    /\ hint' = hint2
    /\ done' = done2 + (done2 - done)
    /\ error' = e
    /\ calls' = calls2
    /\ requests' = requests2
    /\ got' = got2
    /\ IF e.name # ""
       THEN status' = "failed" /\ idx' = idx
       ELSE /\ idx' = idx + 1
            /\ status' = IF idx + 1 > Len(audio_files) THEN "ok" ELSE "running"
    /\ UNCHANGED << deleted, env, stage, force, cfg, publish_cfg, audio_files, fs0, rerun, tracks,
                    gen, writes, config_arg, publisher_vars >>

\* The end of one iteration of a driver's loop: with an exception, or with
\* done += 1 and the next file, and after the last file the report and exit 0
Step(files2, done2, e, calls2, requests2, got2, hint2) ==
    /\ fs' = files2
    /\ hint' = hint2
    /\ done' = done2
    /\ error' = e
    /\ calls' = calls2
    /\ requests' = requests2
    /\ got' = got2
    /\ IF e.name # ""
       THEN status' = "failed" /\ idx' = idx
       ELSE /\ idx' = idx + 1
            /\ status' = IF idx + 1 > Len(audio_files) THEN "ok" ELSE "running"
    /\ UNCHANGED << deleted, env, stage, force, cfg, publish_cfg, audio_files, fs0, rerun, tracks,
                    gen, writes, config_arg, publisher_vars >>

Abort(name, msg, path) == Step(fs, done, Error(name, msg, path), calls, requests, got, hint)

\* transcribe_whisper.py: `if existing:`
already_transcribed(existing) == Truthy(existing)

TranscribeStart ==
    /\ \E listing \in Listings(fs), carg \in ConfigArgs(fs) :
           Begin("transcribe", FALSE, listing, carg)
    /\ gen' = NoGen

TranscribeIter ==
    /\ stage = "transcribe" /\ status = "running" /\ idx <= Len(audio_files)
    /\ LET f == audio_files[idx]
           out_path == artifact_path(whisper_dir, f, Kind_whisper)
           existing == load_json_if_exists(fs, out_path)
           duration == get_audio_duration_ms(env, fs, <<audio_dir, f>>)
       IN  IF existing.err # "" THEN Abort(existing.err, "", out_path)
           ELSE IF already_transcribed(existing.val)
                THEN Step(fs, done + 1, NoError, calls, requests, got, hint)
           ELSE IF duration.err # "" THEN Abort(duration.err, "soundfile is required", NoPath)
           ELSE \E outcome \in WhisperOf(env) :
                    LET r == transcribe_with_whisper(f, cfg.whisper_model, cfg.language_code, outcome)
                        calls2 == [calls EXCEPT ![f] = @ + 1]
                        requests2 ==
                            [requests EXCEPT
                                ![f] = Append(@, IF r.err # "" THEN "error" ELSE "ok")]
                    IN  IF r.err # ""
                        THEN Step(fs, done, Error(r.err, "", NoPath), calls2, requests2, got,
                                  r.hint)
                        ELSE \E text \in write_outcomes(env, r.val) :
                                 IF ~text.valid
                                 THEN Step(write_text(fs, out_path, text), done,
                                           Error("Killed", "", out_path), calls2, requests2,
                                           [got EXCEPT ![f] = r.val], r.hint)
                                 ELSE Step(write_json(fs, out_path, r.val), done + 1, NoError,
                                           calls2, requests2, [got EXCEPT ![f] = r.val],
                                           r.hint)

\* A curation that skips a curated file even under --force
already_curated_despite_force(existing, frc) == Truthy(existing)

\* curate_llm.py: `if existing and not args.force:`
already_curated(existing, frc) == Truthy(existing) /\ ~frc

\* A curation without the prerequisite check
whisper_never_missing(whisper) == FALSE

\* curate_llm.py: `if not whisper:`
whisper_missing(whisper) == ~Truthy(whisper)

CurateStart ==
    /\ \E listing \in Listings(fs), frc \in BOOLEAN, carg \in ConfigArgs(fs) :
           Begin("curate", frc, listing, carg)
    /\ gen' = NoGen

\* A curation that goes on with no segments when the file has no usable
\* whisper artifact
CurateIter_without_prerequisite ==
    /\ stage = "curate" /\ status = "running" /\ idx <= Len(audio_files)
    /\ LET f == audio_files[idx]
           out_path == artifact_path(curated_dir, f, Kind_curated)
           existing == load_json_if_exists(fs, out_path)
           whisper_path == artifact_path(whisper_dir, f, Kind_whisper)
           whisper == load_json_if_exists(fs, whisper_path)
           duration == get_audio_duration_ms(env, fs, <<audio_dir, f>>)
       IN  IF existing.err # "" THEN Abort(existing.err, "", out_path)
           ELSE IF already_curated(existing.val, force)
                THEN Step(fs, done + 1, NoError, calls, requests, got, hint)
           ELSE IF whisper.err # "" THEN Abort(whisper.err, "", whisper_path)
           ELSE IF duration.err # "" THEN Abort(duration.err, "soundfile is required", NoPath)
           ELSE \E reply \in RepliesOf(env) :
                    LET r == curate_with_openai(env, reply)
                        calls2 == [calls EXCEPT ![f] = @ + 1]
                        requests2 == [requests EXCEPT ![f] = @ \o r.requests]
                        got2 == [got EXCEPT ![f] = r.val]
                        written == write_json(fs, out_path, r.val)
                    IN  IF r.err # ""
                        THEN Step(fs, done, Error(r.err, "", NoPath), calls2, requests2, got,
                                  hint)
                        ELSE \E text \in write_outcomes(env, r.val) :
                                 IF ~text.valid
                                 THEN Step(write_text(fs, out_path, text), done,
                                           Error("Killed", "", out_path), calls2, requests2,
                                           got2, hint)
                                 \* after write_json and done += 1:
                                 \* curated.get("transcripts", [])
                                 ELSE IF r.val.t # "dict"
                                 THEN Step(written, done + 1,
                                           Error("AttributeError", "", NoPath),
                                           calls2, requests2, got2, hint)
                                 ELSE Step(written, done + 1, NoError, calls2, requests2,
                                           got2, hint)

CurateIter ==
    /\ stage = "curate" /\ status = "running" /\ idx <= Len(audio_files)
    /\ LET f == audio_files[idx]
           out_path == artifact_path(curated_dir, f, Kind_curated)
           existing == load_json_if_exists(fs, out_path)
           whisper_path == artifact_path(whisper_dir, f, Kind_whisper)
           whisper == load_json_if_exists(fs, whisper_path)
           duration == get_audio_duration_ms(env, fs, <<audio_dir, f>>)
       IN  IF existing.err # "" THEN Abort(existing.err, "", out_path)
           ELSE IF already_curated(existing.val, force)
                THEN Step(fs, done + 1, NoError, calls, requests, got, hint)
           ELSE IF whisper.err # "" THEN Abort(whisper.err, "", whisper_path)
           ELSE IF whisper_missing(whisper.val)
                THEN Abort("FileNotFoundError", "Missing whisper artifact", whisper_path)
           ELSE IF duration.err # "" THEN Abort(duration.err, "soundfile is required", NoPath)
           \* extract_segments_for_llm: whisper_result.get("segments", [])
           ELSE IF whisper.val.t # "dict" THEN Abort("AttributeError", "", NoPath)
           ELSE \E reply \in RepliesOf(env) :
                    LET r == curate_with_openai(env, reply)
                        calls2 == [calls EXCEPT ![f] = @ + 1]
                        requests2 == [requests EXCEPT ![f] = @ \o r.requests]
                        got2 == [got EXCEPT ![f] = r.val]
                        written == write_json(fs, out_path, r.val)
                    IN  IF r.err # ""
                        THEN Step(fs, done, Error(r.err, "", NoPath), calls2, requests2, got,
                                  hint)
                        ELSE \E text \in write_outcomes(env, r.val) :
                                 IF ~text.valid
                                 THEN Step(write_text(fs, out_path, text), done,
                                           Error("Killed", "", out_path), calls2, requests2,
                                           got2, hint)
                                 \* after write_json and done += 1:
                                 \* curated.get("transcripts", [])
                                 ELSE IF r.val.t # "dict"
                                 THEN Step(written, done + 1,
                                           Error("AttributeError", "", NoPath),
                                           calls2, requests2, got2, hint)
                                 ELSE Step(written, done + 1, NoError, calls2, requests2,
                                           got2, hint)

\* ------------------------------------------------------------------------
\* The assembler (assemble.py, scripts/assemble_manifest.py)
\* ------------------------------------------------------------------------

\* An assembler that may write the manifest before the loop has ended
tracks_built_or_not == TRUE

\* The loop over audio_files has ended
all_tracks_built == idx > Len(audio_files)

AssembleStart ==
    /\ \E listing \in Listings(fs), carg \in ConfigArgs(fs) :
           Begin("assemble", FALSE, listing, carg)
    /\ \E s \in SaltsOf(env) : gen' = [salt |-> s, next |-> 0]

AssembleIter ==
    /\ stage = "assemble" /\ status = "running" /\ idx <= Len(audio_files)
    /\ LET f == audio_files[idx]
           duration == get_audio_duration_ms(env, fs, <<audio_dir, f>>)
           curated_path == artifact_path(curated_dir, f, Kind_curated)
           curated == load_json_if_exists(fs, curated_path)
           built == build_track(cfg, publish_cfg, f, duration.val, curated.val, gen)
           e == IF duration.err # "" THEN Error(duration.err, "soundfile is required", NoPath)
                ELSE IF curated.err # "" THEN Error(curated.err, "", curated_path)
                ELSE IF built.err # "" THEN Error(built.err, "", curated_path)
                ELSE NoError
       IN  /\ error' = e
           /\ IF e.name # ""
              THEN status' = "failed" /\ UNCHANGED << idx, tracks, gen >>
              ELSE /\ status' = "running"
                   /\ idx' = idx + 1
                   /\ tracks' = Append(tracks, built.track)
                   /\ gen' = [gen EXCEPT !.next = @ + built.drawn]
    /\ UNCHANGED << deleted, fs, env, stage, force, cfg, publish_cfg, audio_files, done, calls,
                    requests, got, fs0, rerun, writes, config_arg, hint, publisher_vars >>

\* manifest.to_json(), json.dumps and out_path.write_text, once, after the loop
AssembleWrite ==
    /\ stage = "assemble" /\ status = "running" /\ all_tracks_built
    /\ fs' = write_text(fs, manifest_path, json_dumps(BundleManifest(cfg, tracks)))
    /\ writes' = writes + 1
    /\ status' = "ok"
    /\ UNCHANGED << deleted, env, stage, force, cfg, publish_cfg, audio_files, idx, done, error,
                    calls, requests, got, fs0, rerun, tracks, gen, config_arg, hint,
                    publisher_vars >>

\* ------------------------------------------------------------------------
\* The publisher (scripts/publish_bundle.py, s3io.py, qrcode_tools.py)
\* ------------------------------------------------------------------------

QrPng == << "q", "r", ".", "p", "n", "g" >>
qr_path == <<bundle_root, QrPng>>

\* sorted(paths) for the files of one directory: by the characters of the
\* names; tabulated over the audio directories of the worlds
SortedTable ==
    {[names |-> r.names,
      sorted |-> CHOOSE s \in r.orders :
                     \A i, j \in 1..Len(s) : i < j => StrLess(s[i], s[j])] :
        r \in OrdersTable}

SortedByName(names) == (CHOOSE r \in SortedTable : r.names = names).sorted

\* [manifest_path] + sorted([p for p in wp.audio_dir.glob("*") if p.is_file()])
files_to_upload(files) ==
    LET names == {p[2] : p \in {q \in DOMAIN files : q[1] = audio_dir}}
        sorted == SelectSeq(SortedByName(names), is_file)
    IN  <<manifest_path>> \o [i \in 1..Len(sorted) |-> <<audio_dir, sorted[i]>>]

\* PublishConfig.publish_prefix
publish_prefix(publish, bundle_id) == Format(publish.publish_prefix_template, bundle_id)

\* upload_files: key = f"{key_prefix}{f.name}" in the bucket
upload_key(bucket, key_prefix, path) ==
    [bucket |-> bucket, prefix |-> key_prefix, name |-> path[2]]

\* s3.upload_file(str(f), bucket, key): the object under the key is the file
upload_file(objects, path, key) ==
    [k \in DOMAIN objects \cup {key} |-> IF k = key THEN [src |-> path] ELSE objects[k]]

\* PublishConfig.manifest_https_url
manifest_https_url(publish, bundle_id, manifest_filename) ==
    [base |-> publish.cloudfront_https_base,
     prefix |-> Format(publish.cloudfront_prefix_template, bundle_id),
     file |-> manifest_filename]

\* write_qr_png(url, out_path)
write_qr_png(files, link, out_path) == write_text(files, out_path, [qr |-> link])

\* A publisher that never uploads
uploads_wanted_never(dry) == FALSE

\* A publisher that uploads in a dry run too
uploads_wanted_always(dry) == TRUE

\* `if args.dryrun:` ... `else: upload_files(...)`
uploads_wanted(dry) == ~dry

\* A publisher that does not look for the manifest
manifest_exists_unchecked(files, path) == TRUE

\* manifest_path.exists()
manifest_exists(files, path) == path \in DOMAIN files

\* publish_bundle.py up to the uploads: load the configuration, look for the
\* manifest, load the publish configuration, list the files to upload
PublishStart ==
    \E dry \in BOOLEAN, carg \in ConfigArgs(fs) :
        LET cfg_path == config_or_default(carg)
            c == LoadConfig(fs, cfg_path)
            pc == IF c.err = "" THEN LoadPublishConfig(fs, c.val.publish_config_path)
                  ELSE Ok(NoPublishConfig)
            e == IF c.err # "" THEN Error(c.err, "Missing required config field", cfg_path)
                 ELSE IF ~manifest_exists(fs, manifest_path)
                      THEN Error("FileNotFoundError",
                                 "Manifest not found. Run assemble_manifest.py first.",
                                 manifest_path)
                 ELSE IF pc.err # ""
                      THEN Error(pc.err, "Missing required config field", publish_config_path)
                 ELSE NoError
        IN  /\ status # "running"
            /\ stage' = "publish"
            /\ force' = FALSE
            /\ config_arg' = carg
            /\ dryrun' = dry
            /\ cfg' = IF c.err # "" THEN NoConfig ELSE c.val
            /\ publish_cfg' = IF e.name # "" THEN NoPublishConfig ELSE pc.val
            /\ plan' = IF e.name # "" THEN <<>> ELSE files_to_upload(fs)
            /\ audio_files' = <<>>
            /\ idx' = 1
            /\ done' = 0
            /\ status' = IF e.name # "" THEN "failed" ELSE "running"
            /\ error' = e
            /\ calls' = << >>
            /\ requests' = << >>
            /\ got' = << >>
            /\ fs0' = fs
            /\ rerun' = FALSE
            /\ tracks' = <<>>
            /\ gen' = NoGen
            /\ writes' = 0
            /\ hint' = NoHint
            /\ store0' = store
            /\ uploads' = <<>>
            /\ url' = NoUrl
            /\ UNCHANGED << deleted, fs, env, store >>

\* upload_files: one pass of `for f in files`, whose upload is stored or raises
PublishUpload ==
    /\ stage = "publish" /\ status = "running"
    /\ uploads_wanted(dryrun) /\ idx <= Len(plan)
    /\ \E stored \in UploadOutcomes(env) :
           LET key == upload_key(publish_cfg.publish_bucket,
                                 publish_prefix(publish_cfg, cfg.bundle_id), plan[idx])
           IN  IF stored
               THEN /\ store' = upload_file(store, plan[idx], key)
                    /\ uploads' = Append(uploads, key)
                    /\ idx' = idx + 1
                    /\ UNCHANGED << status, error >>
               ELSE /\ status' = "failed"
                    /\ error' = Error("S3UploadFailedError", "", plan[idx])
                    /\ UNCHANGED << store, uploads, idx >>
    /\ UNCHANGED << deleted, fs, env, stage, force, cfg, publish_cfg, audio_files, done, calls,
                    requests, got, fs0, rerun, tracks, gen, writes, config_arg, hint,
                    dryrun, plan, store0, url >>

\* After the uploads, or at once in a dry run: print the manifest URL, then
\* write the QR code, which needs the qrcode module
PublishEmit ==
    /\ stage = "publish" /\ status = "running"
    /\ ~uploads_wanted(dryrun) \/ idx > Len(plan)
    /\ url' = manifest_https_url(publish_cfg, cfg.bundle_id, manifest_path[2])
    /\ IF env.qrcode
       THEN /\ fs' = write_qr_png(fs, url', qr_path)
            /\ status' = "ok"
            /\ UNCHANGED error
       ELSE /\ status' = "failed"
            /\ error' = Error("ModuleNotFoundError", "No module named 'qrcode'", NoPath)
            /\ UNCHANGED fs
    /\ UNCHANGED << deleted, env, stage, force, cfg, publish_cfg, audio_files, idx, done, calls,
                    requests, got, fs0, rerun, tracks, gen, writes, config_arg, hint,
                    dryrun, plan, store, store0, uploads >>

\* ------------------------------------------------------------------------
\* The operator
\* ------------------------------------------------------------------------

\* After a run that stopped with a parse error the operator deletes the file
\* the error names; what was observed of that run is dropped.
OperatorDelete ==
    /\ status = "failed" /\ error.name = "JSONDecodeError"
    /\ error.path \in DOMAIN fs
    /\ fs' = [p \in DOMAIN fs \ {error.path} |-> fs[p]]
    /\ deleted' = deleted \cup {error.path}
    /\ fs0' = fs'
    /\ stage' = "none" /\ status' = "none" /\ error' = NoError
    /\ force' = FALSE /\ config_arg' = NoPath
    /\ cfg' = NoConfig /\ publish_cfg' = NoPublishConfig
    /\ audio_files' = <<>> /\ idx' = 1 /\ done' = 0
    /\ calls' = << >> /\ requests' = << >> /\ got' = << >>
    /\ rerun' = FALSE /\ tracks' = <<>> /\ gen' = NoGen /\ writes' = 0
    /\ hint' = NoHint /\ dryrun' = FALSE /\ plan' = <<>> /\ store0' = store
    /\ uploads' = <<>> /\ url' = NoUrl
    /\ UNCHANGED << env, store >>

Next ==
    \/ TranscribeStart
    \/ TranscribeIter
    \/ CurateStart
    \/ CurateIter
    \/ AssembleStart
    \/ AssembleIter
    \/ AssembleWrite
    \/ PublishStart
    \/ PublishUpload
    \/ PublishEmit
    \/ OperatorDelete

Spec == Init /\ [][Next]_vars

\* ------------------------------------------------------------------------
\* Reruns: the operator runs the transcription again after each run of it
\* that aborted, and when it has succeeded runs the curation, again after
\* each run that aborted
\* ------------------------------------------------------------------------

RerunWorlds ==
    { World(GoodYaml, GoodPublishYaml, NullEnv, TwoFiles),
      World(GoodYaml, GoodPublishYaml, NullEnv, SameKey),
      World(GoodYaml, GoodPublishYaml, NullEnv, OneFile) }

RerunInit == \E w \in RerunWorlds : InitWorld(w)

RerunTranscribe ==
    /\ stage \in {"none", "transcribe"} /\ status \in {"none", "failed"}
    /\ TranscribeStart

RerunCurate ==
    /\ \/ stage = "transcribe" /\ status = "ok"
       \/ stage = "curate" /\ status = "failed"
    /\ CurateStart

RerunNext ==
    \/ RerunTranscribe
    \/ TranscribeIter
    \/ RerunCurate
    \/ CurateIter

\* The step calls the collaborator for the file f and the call returns (no
\* request of it ends in a failure)
CallReturned(f) ==
    /\ status = "running" /\ idx <= Len(audio_files) /\ audio_files[idx] = f
    /\ calls'[f] = calls[f] + 1
    /\ LET log == requests'[f] IN log # <<>> /\ log[Len(log)] = "ok"

RerunFiles == UNION {DOMAIN w.audio : w \in RerunWorlds}

\* The commands run on, the operator starts the next run, and the collaborator
\* call for a file, made again and again, does not fail every time
RerunSpec ==
    /\ RerunInit /\ [][RerunNext]_vars
    /\ WF_vars(RerunNext)
    /\ \A f \in RerunFiles :
           /\ SF_vars(TranscribeIter /\ CallReturned(f))
           /\ SF_vars(CurateIter /\ CallReturned(f))

\* ------------------------------------------------------------------------
\* Observations on a run
\* ------------------------------------------------------------------------

Files == 1..Len(audio_files)

WhisperPath(f) == artifact_path(whisper_dir, f, Kind_whisper)
CuratedPath(f) == artifact_path(curated_dir, f, Kind_curated)

\* The artifact the running stage keeps for the audio file f
StagePath(f) == IF stage = "transcribe" THEN WhisperPath(f) ELSE CuratedPath(f)

InDriver == stage \in {"transcribe", "curate"}

\* The loop has reached the i-th file: it went past it, or it stopped at it
Visited(i) == i < idx \/ (i = idx /\ status = "failed")

\* The loop went past the i-th file without calling the collaborator
Skipped(i) == i < idx /\ calls[audio_files[i]] = 0

\* The path p is as it was when the current invocation started
Same(p) == (p \in DOMAIN fs <=> p \in DOMAIN fs0) /\ (p \in DOMAIN fs => fs[p] = fs0[p])

\* The Tracks built by the running assembler and those of the manifest on disk
ManifestTracks ==
    IF manifest_path \in DOMAIN fs THEN Range(fs[manifest_path].doc.packs[1].tracks) ELSE {}

AllTracks == Range(tracks) \cup ManifestTracks

\* The duration the assembler reads from the audio file of a Track
DurationOf(t) ==
    LET a == fs[<<audio_dir, t.filename>>] IN IF a.readable THEN a.us \div 1000 ELSE 0

\* The configuration file the invocation was told to use
ConfigGiven == IF config_arg = NoPath THEN config_path ELSE config_arg

\* ------------------------------------------------------------------------
\* Properties
\* ------------------------------------------------------------------------

\* C1: a transcription, or a curation without force, that follows a run of
\* the same stage that succeeded calls the collaborator for no file and
\* leaves every file as it was.
C1_Idempotent ==
    (InDriver /\ rerun) => (\A f \in DOMAIN calls : calls[f] = 0) /\ fs = fs0

\* C2: without force a stage never calls its collaborator for a file whose
\* artifact is there when the run starts, and calls it exactly once for each
\* file it went past whose artifact was not there.
C2_OncePerMissing ==
    (InDriver /\ ~force) =>
        \A i \in Files :
            LET f == audio_files[i]
            IN  /\ StagePath(f) \in DOMAIN fs0 => calls[f] = 0
                /\ (i < idx /\ StagePath(f) \notin DOMAIN fs0) => calls[f] = 1

\* C3: when a stage fails at a file, it has called the collaborator for no
\* later file, and every path other than the artifacts of the files before
\* it (the failing file's artifact among them) is as it was when the run
\* started.
C3_FailStop ==
    (InDriver /\ status = "failed") =>
        /\ \A i \in Files : i > idx => calls[audio_files[i]] = 0
        /\ \A p \in DOMAIN fs \cup DOMAIN fs0 :
               p \notin {StagePath(audio_files[i]) : i \in 1..(idx - 1)} => Same(p)

\* C4: when curation reaches a file it has to process (force, or no curated
\* artifact) and there is no whisper artifact for it, the run stops at that
\* file with a FileNotFoundError that names the whisper artifact's path, the
\* curator is not called for the file and its curated artifact is as before.
C4_MissingPrerequisite ==
    stage = "curate" =>
        \A i \in Files :
            LET f == audio_files[i]
            IN  (/\ Visited(i)
                 /\ force \/ CuratedPath(f) \notin DOMAIN fs0
                 /\ WhisperPath(f) \notin DOMAIN fs0)
                => /\ i = idx /\ status = "failed"
                   /\ error = Error("FileNotFoundError", "Missing whisper artifact",
                                    WhisperPath(f))
                   /\ calls[f] = 0
                   /\ Same(CuratedPath(f))

\* The second file has no whisper artifact: curation processed the first
\* file and stopped at the second
C4_Witness ==
    /\ stage = "curate" /\ status = "failed" /\ idx = 2
    /\ calls[audio_files[1]] = 1
    /\ WhisperPath(audio_files[2]) \notin DOMAIN fs0
    /\ error.name = "FileNotFoundError"

\* C5: a file is skipped exactly when its artifact file exists, and the
\* prerequisite check fails exactly when the whisper artifact file does not
\* exist, whatever the files contain.
C5_PresenceAlone ==
    /\ (InDriver /\ ~force) =>
           \A i \in Files : Visited(i) => (Skipped(i) <=> StagePath(audio_files[i]) \in DOMAIN fs0)
    /\ stage = "curate" =>
           \A i \in Files :
               (Visited(i) /\ ~Skipped(i)) =>
                   ((i = idx /\ error.name = "FileNotFoundError")
                        <=> WhisperPath(audio_files[i]) \notin DOMAIN fs0)

\* C6: a forced curation over files that all have a whisper artifact never
\* stops for a missing prerequisite, and for every file it went past it has
\* called the curator exactly once and the curated artifact is exactly the
\* new response.
C6_ForceReprocesses ==
    (stage = "curate" /\ force /\ \A i \in Files : WhisperPath(audio_files[i]) \in DOMAIN fs0) =>
        /\ error.name # "FileNotFoundError"
        /\ \A i \in Files :
               i < idx =>
                   LET f == audio_files[i]
                   IN  /\ calls[f] = 1
                       /\ CuratedPath(f) \in DOMAIN fs
                       /\ fs[CuratedPath(f)] = json_dumps(got[f])

\* A forced curation has finished over two files that were already curated,
\* and replaced the first one's artifact by a different document
C6_Witness ==
    /\ stage = "curate" /\ force /\ status = "ok" /\ Len(audio_files) = 2
    /\ \A i \in Files : CuratedPath(audio_files[i]) \in DOMAIN fs0
    /\ fs[CuratedPath(audio_files[1])] # fs0[CuratedPath(audio_files[1])]

\* C7: the assembler writes the manifest at most once, and only when every
\* Track is built; while it runs and when it has failed, the manifest file is
\* absent or as it was.
C7_ManifestAtEnd ==
    stage = "assemble" =>
        /\ writes <= 1
        /\ writes = 1 =>
               /\ status = "ok"
               /\ Len(tracks) = Len(audio_files)
               /\ fs[manifest_path] = json_dumps(BundleManifest(cfg, tracks))
        /\ status # "ok" => writes = 0 /\ Same(manifest_path)

\* The assembler failed at the second file, after it built the first Track,
\* and the manifest of an earlier invocation is still there
C7_Witness ==
    /\ stage = "assemble" /\ status = "failed" /\ idx = 2 /\ Len(tracks) = 1
    /\ manifest_path \in DOMAIN fs

\* C8: every Track has at least one PracticeSet and the first one is the
\* full-track set.
C8_FullTrackFirst ==
    \A t \in AllTracks :
        /\ Len(t.practiceSets) >= 1
        /\ t.practiceSets[1].title = "Full Track"

\* A manifest with a Track that has a curated set with clips and a Track of
\* unknown duration without one
C8_Witness ==
    /\ stage = "assemble" /\ status = "ok"
    /\ \E t \in ManifestTracks : Len(t.practiceSets) = 2 /\ t.practiceSets[2].clips # <<>>
    /\ \E t \in ManifestTracks : Len(t.practiceSets) = 1 /\ ~t.durationMs.some

\* C9: the practice sets of a Track are the full-track set alone, or the
\* full-track set followed by the curated set; their display orders are 0
\* and 1, the position in the list.
C9_DisplayOrder ==
    \A t \in AllTracks :
        LET ps == t.practiceSets
        IN  /\ Len(ps) \in {1, 2}
            /\ ps[1].title = "Full Track"
            /\ Len(ps) = 2 => ps[2].title = "Practice Set"
            /\ \A i \in 1..Len(ps) : ps[i].displayOrder = i - 1

\* A Track with both practice sets is in the manifest
C9_Witness ==
    /\ stage = "assemble" /\ status = "ok"
    /\ \E t \in ManifestTracks :
           /\ Len(t.practiceSets) = 2
           /\ t.practiceSets[1].displayOrder = 0
           /\ t.practiceSets[2].displayOrder = 1

\* C10: the full-track set of a Track whose audio has a positive duration d
\* has exactly one clip, a drill from 0 to d; for a zero or unreadable
\* duration it has no clip.
C10_FullTrackClip ==
    \A t \in AllTracks :
        LET d == DurationOf(t)
            full == t.practiceSets[1]
        IN  IF d > 0
            THEN /\ Len(full.clips) = 1
                 /\ full.clips[1].kind = "drill"
                 /\ full.clips[1].startMs = 0
                 /\ full.clips[1].endMs = d
            ELSE full.clips = <<>>

\* A manifest with a Track of positive duration and a Track of unreadable one
C10_Witness ==
    /\ stage = "assemble" /\ status = "ok"
    /\ \E t \in ManifestTracks : DurationOf(t) > 0 /\ Len(t.practiceSets[1].clips) = 1
    /\ \E t \in ManifestTracks : DurationOf(t) = 0 /\ t.practiceSets[1].clips = <<>>

\* The clip list and the transcript list of the curated artifact of the
\* i-th audio file, empty when there is no artifact or no such key
CuratedList(i, key) ==
    LET p == CuratedPath(audio_files[i])
    IN  IF p \in DOMAIN fs /\ key \in fs[p].doc.keys
        THEN (IF key = "clips" THEN fs[p].doc.clips ELSE fs[p].doc.transcripts)
        ELSE <<>>

\* C11: a Track the assembler built has a second PracticeSet, of display
\* order 1, exactly when the file's curated artifact exists and has a
\* non-empty clip list; the Track has one TranscriptSpan for each transcript
\* of the artifact whether or not the artifact has clips.
C11_CuratedMerge ==
    stage = "assemble" =>
        \A i \in 1..Len(tracks) :
            LET ps == tracks[i].practiceSets
            IN  /\ Len(ps) = 2 <=> CuratedList(i, "clips") # <<>>
                /\ Len(ps) = 2 => ps[2].displayOrder = 1
                /\ Len(tracks[i].transcripts) = Len(CuratedList(i, "transcripts"))

\* A Track built from a curated artifact that has transcripts and no clips
C11_Witness ==
    /\ stage = "assemble" /\ Len(tracks) >= 1
    /\ \E i \in 1..Len(tracks) :
           /\ CuratedPath(audio_files[i]) \in DOMAIN fs
           /\ CuratedList(i, "clips") = <<>>
           /\ Len(tracks[i].practiceSets) = 1
           /\ tracks[i].transcripts # <<>>

\* The Track built from the i-th file agrees with the file's curated
\* artifact, offsets being compared through conv: one TranscriptSpan per
\* transcript and one clip of the curated set per clip, in the artifact's
\* order, with its text, kind and offsets; spans and drill clips carry the
\* configured language, other clips none
Translated(i, conv(_)) ==
    LET ts == CuratedList(i, "transcripts")
        cs == CuratedList(i, "clips")
        t  == tracks[i]
        clips == IF Len(t.practiceSets) = 2 THEN t.practiceSets[2].clips ELSE <<>>
    IN  /\ Len(t.transcripts) = Len(ts)
        /\ \A j \in 1..Len(ts) :
               /\ conv(ts[j].startMs) = t.transcripts[j].startMs
               /\ conv(ts[j].endMs) = t.transcripts[j].endMs
               /\ t.transcripts[j].text = ts[j].text
               /\ t.transcripts[j].languageCode = cfg.language_code
        /\ Len(clips) = Len(cs)
        /\ \A j \in 1..Len(cs) :
               /\ conv(cs[j].startMs) = clips[j].startMs
               /\ conv(cs[j].endMs) = clips[j].endMs
               /\ clips[j].kind = cs[j].kind
               /\ clips[j].languageCode =
                      IF cs[j].kind = "drill" THEN cfg.language_code ELSE NoneChars

\* The offset x of an artifact, when it is a whole number of milliseconds
Exactly(x) == IF x % 10 = 0 THEN x \div 10 ELSE -1

\* C12 as stated: the spans and clips of a built Track are those of the
\* curated artifact, with the artifact's offsets.
C12_ArtifactOffsets ==
    stage = "assemble" => \A i \in 1..Len(tracks) : Translated(i, Exactly)

\* C12: the spans and clips of a built Track are those of the curated
\* artifact in the artifact's order, each offset cut to whole milliseconds
\* by int(); spans and drill clips carry the configured language, clips of
\* another kind carry none.
C12_CuratedTranslation ==
    stage = "assemble" => \A i \in 1..Len(tracks) : Translated(i, py_int)

\* A Track built from an artifact with a transcript, a skip and a drill
C12_Witness ==
    /\ stage = "assemble"
    /\ \E i \in 1..Len(tracks) :
           /\ Len(CuratedList(i, "transcripts")) = 1
           /\ Len(CuratedList(i, "clips")) = 2
           /\ Len(tracks[i].practiceSets) = 2
           /\ \E j \in 1..2 : tracks[i].practiceSets[2].clips[j].kind = "skip"

ClipKind == {"drill", "skip", "noise"}

\* C13: every Clip of the manifest on disk ends after it starts and has one
\* of the three kinds.
C13_ClipWellFormed ==
    \A t \in ManifestTracks :
        \A k \in 1..Len(t.practiceSets) :
            \A j \in 1..Len(t.practiceSets[k].clips) :
                LET c == t.practiceSets[k].clips[j]
                IN  c.endMs > c.startMs /\ c.kind \in ClipKind

\* The file names of the Tracks of a manifest, in the Pack's order
TrackOrder(text) ==
    LET ts == text.doc.packs[1].tracks IN [i \in 1..Len(ts) |-> ts[i].filename]

\* The sequence of file names is in natural-sort order
NaturallySorted(files) ==
    \A i, j \in 1..Len(files) :
        i < j => ~KeyLess(natural_sort_key(files[j]), natural_sort_key(files[i]))

\* C14: the Tracks are in the order of the inventory, which is a natural-sort
\* order; and as the audio directory never changes, the manifest an assembler
\* run writes has its Tracks in the order of the manifest that was there
\* before, whatever the order in which the directory was enumerated.
C14_TrackOrder ==
    stage = "assemble" =>
        /\ \A i \in 1..Len(tracks) : tracks[i].filename = audio_files[i]
        /\ NaturallySorted(audio_files)
        /\ (status = "ok" /\ manifest_path \in DOMAIN fs0) =>
               TrackOrder(fs[manifest_path]) = TrackOrder(fs0[manifest_path])

\* C15: taking the inventory never fails on a file name, the inventory is
\* sorted by runs (digit runs as integers, text runs lower-cased), and b2
\* comes before b10.
C15_NaturalSort ==
    /\ error.msg # "invalid literal for int()"
    /\ NaturallySorted(audio_files)
    /\ \A i, j \in 1..Len(audio_files) :
           (audio_files[i] = F_b2 /\ audio_files[j] = F_b10) => i < j

\* A manifest without the generated identifiers of its PracticeSets and Clips
WithoutIds(text) ==
    LET Set(ps) ==
            [ps EXCEPT !.id = NoGen, !.trackId = NoGen,
                       !.clips = [j \in 1..Len(ps.clips) |-> [ps.clips[j] EXCEPT !.id = NoGen]]]
        Track(t) ==
            [t EXCEPT !.practiceSets = [k \in 1..Len(t.practiceSets) |-> Set(t.practiceSets[k])]]
        Pack(p) == [p EXCEPT !.tracks = [i \in 1..Len(p.tracks) |-> Track(p.tracks[i])]]
    IN  [text.doc EXCEPT !.packs = [i \in 1..Len(text.doc.packs) |-> Pack(text.doc.packs[i])]]

\* C16: an assembler run that directly follows a successful assembler run
\* writes a manifest equal to the one that was there, the generated
\* identifiers apart.
C16_AssemblerIdempotent ==
    (stage = "assemble" /\ rerun /\ status = "ok") =>
        WithoutIds(fs[manifest_path]) = WithoutIds(fs0[manifest_path])

\* soundfile can read the audio file of the i-th audio file
Readable(i) == fs[<<audio_dir, audio_files[i]>>].readable

\* C17: a transcription that reaches a file without a whisper artifact whose
\* duration cannot be read stops at that file, without a call of the speech
\* engine and without an artifact for it.
C17_DurationFatal ==
    stage = "transcribe" =>
        \A i \in Files :
            (Visited(i) /\ WhisperPath(audio_files[i]) \notin DOMAIN fs0 /\ ~Readable(i)) =>
                /\ i = idx /\ status = "failed"
                /\ calls[audio_files[i]] = 0
                /\ WhisperPath(audio_files[i]) \notin DOMAIN fs

C19_OneRequest ==
    InDriver => \A f \in DOMAIN requests : Len(requests[f]) <= 1

\* C19: a stage calls its collaborator at most once for a file. The speech
\* engine gets at most one request; the curation service gets a second one
\* only when it rejected the first for the max_completion_tokens parameter,
\* and never a third. A request that ended in any other failure is the last,
\* and the run has stopped at that file.
C19_NoRetry ==
    InDriver =>
        \A i \in Files :
            LET log == requests[audio_files[i]]
            IN  /\ calls[audio_files[i]] <= 1
                /\ Len(log) <= 2
                /\ Len(log) = 2 => stage = "curate" /\ log[1] = "unsupported"
                /\ \A k \in 1..Len(log) :
                       log[k] = "error" => k = Len(log) /\ i = idx /\ status = "failed"

\* The curation service rejected the parameter and failed the second request
C19_Witness ==
    /\ stage = "curate" /\ status = "failed" /\ idx \in Files
    /\ requests[audio_files[idx]] = <<"unsupported", "error">>

\* C20: every curated artifact on disk is a JSON object: a reply of the
\* curation service that is no JSON object is never persisted.
C20_ObjectOnly ==
    \A p \in DOMAIN fs : p[1] = curated_dir => fs[p].doc.t = "dict"


\* The fields the configuration document is required to have
RequiredFields == {"bundle_id", "source_s3", "language_code", "bundle_title", "pack_title"}

\* C21: when the bundle configuration lacks a required field (bundle
\* identifier, source location, language tag, bundle title, pack title), the
\* stage aborts with a configuration error before any collaborator call,
\* artifact write or manifest write.
C21_ConfigAbort ==
    (stage # "none" /\ ~(RequiredFields \subseteq fs0[ConfigGiven].keys))
        => /\ status = "failed"
           /\ error.msg = "Missing required config field"
           /\ \A f \in DOMAIN calls : calls[f] = 0
           /\ fs = fs0
           /\ uploads = <<>>


\* The file name ends, in whatever case, with a dot and an allow-listed
\* extension, and has at least one character before it
AllowListed(name) ==
    \E e \in {"mp3", "m4a", "wav", "aac", "flac", "ogg", "opus"} :
        \E k \in 1..(Len(name) - 1) :
            /\ name[k] = "."
            /\ k > 1
            /\ \A j \in (k + 1)..Len(name) : name[j] # "."
            /\ LET ext == [j \in 1..(Len(name) - k) |-> LowerChar(name[k + j])]
               IN  \/ (e = "mp3" /\ ext = << "m", "p", "3" >>)
                   \/ (e = "m4a" /\ ext = << "m", "4", "a" >>)
                   \/ (e = "wav" /\ ext = << "w", "a", "v" >>)
                   \/ (e = "aac" /\ ext = << "a", "a", "c" >>)
                   \/ (e = "flac" /\ ext = << "f", "l", "a", "c" >>)
                   \/ (e = "ogg" /\ ext = << "o", "g", "g" >>)
                   \/ (e = "opus" /\ ext = << "o", "p", "u", "s" >>)

\* The audio directory had no file with an allow-listed extension when the
\* invocation started
NoAudioAtStart ==
    \A p \in DOMAIN fs0 : (p[1] = audio_dir /\ ~fs0[p].dir) => ~AllowListed(p[2])

\* C22: when the audio directory holds no file with an allow-listed
\* extension, a transcription, curation or assembly run aborts with a named
\* error, calls no collaborator and writes neither an artifact nor a manifest.
C22_NoAudio ==
    (stage \in {"transcribe", "curate", "assemble"} /\ NoAudioAtStart)
        => /\ status = "failed"
           /\ error.name = "ValueError"
           /\ error.msg \in {"No audio files found", "Missing required config field"}
           /\ DOMAIN calls = {}
           /\ fs = fs0
           /\ writes = 0 /\ tracks = <<>>

\* An assembly run over an audio directory that holds a text file only
C22_Witness ==
    /\ stage = "assemble" /\ NoAudioAtStart
    /\ \E p \in DOMAIN fs0 : p[1] = audio_dir
    /\ error.msg = "No audio files found"


\* The files a publish run has to upload: the manifest and every file of the
\* audio directory, as they were when the run started
ToPublish == {manifest_path} \cup {p \in DOMAIN fs0 : p[1] = audio_dir /\ ~fs0[p].dir}

\* The destination key of a file in the running publish run
DestKey(p) ==
    [bucket |-> publish_cfg.publish_bucket,
     prefix |-> Format(publish_cfg.publish_prefix_template, cfg.bundle_id),
     name |-> p[2]]

\* The running invocation printed the manifest URL or wrote the QR code
Emitted == url # NoUrl \/ ~Same(qr_path)

\* C23: in a publish run that is not a dry run the manifest URL and the QR
\* code are emitted only after every file was uploaded; when an upload fails
\* the run aborts, no later file is uploaded and no URL is emitted.
C23_PublishOrder ==
    (stage = "publish" /\ ~dryrun) =>
        /\ Emitted =>
               /\ Len(uploads) = Cardinality(ToPublish)
               /\ \A p \in ToPublish : DestKey(p) \in Range(uploads) /\ DestKey(p) \in DOMAIN store
        /\ error.name = "S3UploadFailedError" =>
               /\ status = "failed" /\ ~Emitted
               /\ Len(uploads) = idx - 1
               /\ \A i \in idx..Len(plan) :
                      DestKey(plan[i]) \in DOMAIN store =>
                          (DestKey(plan[i]) \in DOMAIN store0
                              /\ store[DestKey(plan[i])] = store0[DestKey(plan[i])])

\* A real publish run uploaded the manifest and three other files and then
\* printed the URL and wrote the QR code
C23_Witness ==
    /\ stage = "publish" /\ ~dryrun /\ status = "ok"
    /\ url # NoUrl /\ ~Same(qr_path)
    /\ Len(uploads) = 4

\* The public URL of the manifest, from the two configuration files
ExpectedUrl ==
    [base |-> fs0[publish_config_path].cloudfront_https_base,
     prefix |-> Format(fs0[publish_config_path].cloudfront_prefix_template,
                       fs0[ConfigGiven].bundle_id),
     file |-> << "b", "u", "n", "d", "l", "e", ".", "j", "s", "o", "n" >>]

\* The upload plan: the manifest, then the files of the audio directory in
\* the order of their names
PlanAsExpected ==
    /\ Len(plan) = Cardinality(ToPublish)
    /\ plan[1] = manifest_path
    /\ \A p \in ToPublish : \E i \in 1..Len(plan) : plan[i] = p
    /\ \A i, j \in 2..Len(plan) : i < j => StrLess(plan[i][2], plan[j][2])

\* C24: a dry run uploads nothing and leaves the destination store as it
\* was; its upload plan and the manifest URL it prints are those of a real
\* run over the same inputs, both being determined by the inputs alone.
C24_DryRun ==
    (stage = "publish" /\ plan # <<>>) =>
        /\ PlanAsExpected
        /\ url \in {NoUrl, ExpectedUrl}
        /\ (~dryrun /\ status = "ok") => url = ExpectedUrl
        /\ dryrun =>
               /\ uploads = <<>>
               /\ store = store0
               /\ status # "running" => url = ExpectedUrl

\* A dry run, after a real run had filled the store, ended with the URL
\* printed
C24_Witness ==
    /\ stage = "publish" /\ dryrun /\ status = "ok"
    /\ Len(plan) = 4 /\ url = ExpectedUrl
    /\ Cardinality(DOMAIN store) = 4


\* C25: a stage command that is invoked with an explicit config path takes
\* its bundle configuration from that path, not from the default location
\* under the work root.
C25_ExplicitConfig ==
    (stage # "none" /\ config_arg # NoPath /\ cfg # NoConfig) =>
        /\ cfg.language_code = fs0[config_arg].language_code
        /\ cfg.bundle_title = fs0[config_arg].bundle_title
        /\ cfg.pack_title = fs0[config_arg].pack_title


\* The artifact of the running stage for the i-th file was not valid JSON
\* when the invocation started
Truncated(i) ==
    /\ StagePath(audio_files[i]) \in DOMAIN fs0
    /\ ~fs0[StagePath(audio_files[i])].valid

\* The prerequisites of the running stage for the file f were there when the
\* invocation started: for curation, a transcription artifact
Prerequisites(f) ==
    stage = "curate" =>
        /\ WhisperPath(f) \in DOMAIN fs0
        /\ fs0[WhisperPath(f)].valid
        /\ Truthy(fs0[WhisperPath(f)].doc)

\* C26: a transcription or curation run, with or without force, that reaches
\* a file whose artifact is not valid JSON stops there with a parse error,
\* without calling the collaborator for the file and without overwriting the
\* artifact; once the operator has deleted the artifact, a run that reaches
\* the file processes it as a file without artifact.
C26_TruncatedCache ==
    InDriver =>
        \A i \in Files :
            LET f == audio_files[i]
            IN  /\ (Visited(i) /\ Truncated(i)) =>
                       /\ i = idx /\ status = "failed"
                       /\ error.name = "JSONDecodeError" /\ error.path = StagePath(f)
                       /\ calls[f] = 0
                       /\ Same(StagePath(f))
                /\ (Visited(i) /\ StagePath(f) \in deleted /\ StagePath(f) \notin DOMAIN fs0
                        /\ Prerequisites(f)) =>
                       /\ calls[f] = 1
                       /\ error.name # "JSONDecodeError"
                       /\ StagePath(f) \in DOMAIN fs

\* After a parse error and the deletion of the truncated curated artifact, a
\* curation run called the curator for the file and wrote its artifact
C26_Witness ==
    /\ stage = "curate" /\ status = "ok"
    /\ \E i \in Files :
           /\ CuratedPath(audio_files[i]) \in deleted
           /\ calls[audio_files[i]] = 1
           /\ fs[CuratedPath(audio_files[i])].valid


\* h is the hint for the language tag: none for an empty tag, the tag itself
\* when it has no hyphen, else what stands before its first hyphen
HintFor(tag, h) ==
    IF tag = <<>> THEN h = NoneChars
    ELSE IF \A i \in 1..Len(tag) : tag[i] # "-" THEN h = tag
    ELSE \E k \in 1..Len(tag) :
             /\ tag[k] = "-"
             /\ \A i \in 1..(k - 1) : tag[i] # "-"
             /\ h = [i \in 1..(k - 1) |-> tag[i]]

\* C27: the hint passed to the speech engine is the configured language tag
\* without everything from its first hyphen on; a tag without hyphen is
\* passed as it is, and an empty or absent tag gives no hint.
C27_LanguageHint ==
    /\ (stage = "transcribe" /\ hint # NoHint) =>
           HintFor(fs0[ConfigGiven].language_code, hint)
    /\ whisper_lang(NoneChars) = NoneChars

\* The engine was called with the hint ko for the tag ko-KR
C27_Witness ==
    /\ stage = "transcribe" /\ fs0[ConfigGiven].language_code = << "k", "o", "-", "K", "R" >>
    /\ hint = << "k", "o" >>


\* The files of the audio directory with an allow-listed extension
Discovered == {p \in DOMAIN fs0 : p[1] = audio_dir /\ ~fs0[p].dir /\ AllowListed(p[2])}

\* C28: when a transcription or curation run ends successfully, its done
\* count is the number of discovered audio files, every file having been
\* either skipped or processed once; during a run the count never exceeds
\* the number of files visited so far.
C28_DoneTotal ==
    InDriver =>
        /\ status = "ok" =>
               /\ done = Len(audio_files)
               /\ done = Cardinality(Discovered)
               /\ \A i \in Files : Skipped(i) \/ calls[audio_files[i]] = 1
        /\ done <= Cardinality({i \in Files : Visited(i)})
        /\ done <= Len(audio_files)

\* A curation run over two files ended successfully: it skipped one file
\* and processed the other
C28_Witness ==
    /\ stage = "curate" /\ status = "ok" /\ done = 2
    /\ \E i, j \in Files : Skipped(i) /\ calls[audio_files[j]] = 1


\* The title of a file name, read off the name from left to right: the
\* extension is dropped, runs of `_`, `-` and blanks separate the words, the
\* words are joined by one blank, and a word has its first letter in upper
\* case and its other letters in lower case
TitleOf(filename) ==
    LET dots == {i \in 2..Len(filename) : filename[i] = "."}
        last == IF dots = {} THEN Len(filename) + 1
                ELSE CHOOSE i \in dots : \A j \in dots : j <= i
        Sep(c) == c \in {"_", "-", " "}
        T[i \in 0..(last - 1)] ==
            IF i = 0 THEN <<>>
            ELSE LET c == filename[i]
                     first == i = 1 \/ Sep(filename[i - 1])
                 IN  IF Sep(c) THEN T[i - 1]
                     ELSE IF first
                          THEN (IF T[i - 1] = <<>> THEN <<>> ELSE Append(T[i - 1], " "))
                                   \o << UpperChar(c) >>
                          ELSE Append(T[i - 1], LowerChar(c))
    IN  T[last - 1]

WithArtifact == {i \in Files : StagePath(audio_files[i]) \in DOMAIN fs}

\* C30: within a transcription or curation run the collaborator is called in
\* inventory order and the artifact of a file is written before the call for
\* the next file; so, starting from an empty cache and with no file deleted
\* by hand, after every run, successful or aborted, the files that have an
\* artifact are the first k files of the inventory, for some k.
C30_InventoryOrder ==
    InDriver =>
        /\ \A i \in Files : calls[audio_files[i]] > 0 => i <= idx
        /\ \A i \in Files :
               (i < idx /\ calls[audio_files[i]] > 0) => i \in WithArtifact
        /\ (status \in {"ok", "failed"} /\ deleted = {}) =>
               \E k \in 0..Len(audio_files) : WithArtifact = 1..k


\* Every discovered audio file has a transcription artifact, a curated one
AllTranscribed ==
    \A p \in DOMAIN fs :
        (p[1] = audio_dir /\ ~fs[p].dir /\ AllowListed(p[2])) => WhisperPath(p[2]) \in DOMAIN fs
AllCurated ==
    \A p \in DOMAIN fs :
        (p[1] = audio_dir /\ ~fs[p].dir /\ AllowListed(p[2])) => CuratedPath(p[2]) \in DOMAIN fs

\* The number of artifacts of the running stage in a file system
Cached(files) ==
    Cardinality({p \in DOMAIN files :
                    p[1] = (IF stage = "transcribe" THEN whisper_dir ELSE curated_dir)})

AudioOnDisk == {p[2] : p \in {q \in DOMAIN fs : q[1] = audio_dir /\ ~fs[q].dir /\ AllowListed(q[2])}}

\* C32: the manifest on disk has exactly one Pack, whose Tracks are, one
\* each, the regular files of the audio directory with an allow-listed
\* extension; no Track is of another entry, and nothing in a Track comes
\* from the curated artifact of an audio file that is gone.
C32_OneTrackPerFile ==
    manifest_path \in DOMAIN fs =>
        LET packs == fs[manifest_path].doc.packs
            ts == packs[1].tracks
        IN  /\ Len(packs) = 1
            /\ \A f \in AudioOnDisk : Cardinality({i \in 1..Len(ts) : ts[i].filename = f}) = 1
            /\ \A i \in 1..Len(ts) : ts[i].filename \in AudioOnDisk
            /\ \A i \in 1..Len(ts) :
                   /\ \A j \in 1..Len(ts[i].transcripts) : ts[i].transcripts[j].text # "old"
                   /\ \A k \in 1..Len(ts[i].practiceSets) :
                          \A j \in 1..Len(ts[i].practiceSets[k].clips) :
                              ts[i].practiceSets[k].clips[j].title # "Old"

\* A manifest was written while the audio directory held an audio file and
\* a directory named cd.mp3 and the cache held the curated artifact of
\* old.mp3, which is not in the audio directory; the one Track has its own
\* curated set
C32_Witness ==
    /\ stage = "assemble" /\ status = "ok"
    /\ \E p \in DOMAIN fs : p[1] = audio_dir /\ fs[p].dir /\ AllowListed(p[2])
    /\ \E p \in DOMAIN fs : p[1] = curated_dir /\ <<audio_dir, SubSeq(p[2], 1, 7)>> \notin DOMAIN fs
    /\ Len(fs[manifest_path].doc.packs[1].tracks) = 1
    /\ Len(fs[manifest_path].doc.packs[1].tracks[1].practiceSets) = 2


\* In the curated artifact of the i-th file every transcript has a drill
\* clip with its two offsets, every drill clip has such a transcript
ArtifactSpansHaveDrills(i) ==
    LET ts == CuratedList(i, "transcripts")
        cs == CuratedList(i, "clips")
    IN  \A j \in 1..Len(ts) :
            \E k \in 1..Len(cs) :
                /\ cs[k].kind = "drill"
                /\ cs[k].startMs = ts[j].startMs /\ cs[k].endMs = ts[j].endMs

ArtifactDrillsHaveSpans(i) ==
    LET ts == CuratedList(i, "transcripts")
        cs == CuratedList(i, "clips")
    IN  \A k \in 1..Len(cs) :
            cs[k].kind = "drill" =>
                \E j \in 1..Len(ts) :
                    cs[k].startMs = ts[j].startMs /\ cs[k].endMs = ts[j].endMs

\* The clips of the curated PracticeSet of a Track, none when it has no such set
CuratedClips(t) == IF Len(t.practiceSets) = 2 THEN t.practiceSets[2].clips ELSE <<>>

\* The same of a Track: its TranscriptSpans and the drill clips of its
\* curated PracticeSet
TrackSpansHaveDrills(t) ==
    \A j \in 1..Len(t.transcripts) :
        \E k \in 1..Len(CuratedClips(t)) :
            /\ CuratedClips(t)[k].kind = "drill"
            /\ CuratedClips(t)[k].startMs = t.transcripts[j].startMs
            /\ CuratedClips(t)[k].endMs = t.transcripts[j].endMs

TrackDrillsHaveSpans(t) ==
    \A k \in 1..Len(CuratedClips(t)) :
        CuratedClips(t)[k].kind = "drill" =>
            \E j \in 1..Len(t.transcripts) :
                /\ CuratedClips(t)[k].startMs = t.transcripts[j].startMs
                /\ CuratedClips(t)[k].endMs = t.transcripts[j].endMs

\* C33 as stated: when every transcript of the artifact has a drill clip with
\* its offsets, every drill clip of the Track's curated set has a
\* TranscriptSpan with its offsets and every TranscriptSpan such a drill clip.
C33_BothFromOne ==
    stage = "assemble" =>
        \A i \in 1..Len(tracks) :
            ArtifactSpansHaveDrills(i) =>
                TrackDrillsHaveSpans(tracks[i]) /\ TrackSpansHaveDrills(tracks[i])

\* C33: the assembler keeps each direction of the correspondence: when
\* every transcript of the artifact has a drill clip with its offsets, every
\* TranscriptSpan of the Track has a drill clip of the curated set with its
\* startMs and endMs; when every drill clip of the artifact has a transcript
\* with its offsets, every drill clip of the curated set has such a
\* TranscriptSpan.
C33_Correspondence ==
    stage = "assemble" =>
        \A i \in 1..Len(tracks) :
            /\ ArtifactSpansHaveDrills(i) => TrackSpansHaveDrills(tracks[i])
            /\ ArtifactDrillsHaveSpans(i) => TrackDrillsHaveSpans(tracks[i])

\* A Track built from an artifact with a transcript, its drill clip and a
\* skip clip: the Track has the span and the drill clip, with equal offsets
C33_Witness ==
    /\ stage = "assemble"
    /\ \E i \in 1..Len(tracks) :
           /\ Len(CuratedList(i, "transcripts")) = 1 /\ Len(CuratedList(i, "clips")) = 2
           /\ ArtifactSpansHaveDrills(i) /\ ArtifactDrillsHaveSpans(i)
           /\ Len(tracks[i].transcripts) = 1
           /\ \E k \in 1..Len(CuratedClips(tracks[i])) :
                  /\ CuratedClips(tracks[i])[k].kind = "drill"
                  /\ CuratedClips(tracks[i])[k].endMs = tracks[i].transcripts[1].endMs


\* The publish run has uploaded a file, printed the URL or written the QR code
Published == uploads # <<>> \/ store # store0 \/ url # NoUrl \/ ~Same(qr_path)

\* The error that tells the operator to run the assemble stage
ManifestMissing ==
    /\ status = "failed"
    /\ error.name = "FileNotFoundError"
    /\ error.msg = "Manifest not found. Run assemble_manifest.py first."
    /\ error.path = manifest_path

AudioNameOf(p) == SubSeq(p[2], 1, Len(p[2]) - Len(Kind_curated) - 6)

\* C35: whatever transcription, curation (forced or not) and assembly runs
\* there were, successful or aborted, every file that has a curated artifact
\* has a transcription artifact.
C35_StageOrdering ==
    \A p \in DOMAIN fs :
        p[1] = curated_dir => WhisperPath(AudioNameOf(p)) \in DOMAIN fs

\* A forced curation stopped at the second of two files for want of its
\* whisper artifact: the first file has both artifacts, the second none
C35_Witness ==
    /\ stage = "curate" /\ force /\ status = "failed" /\ idx = 2
    /\ error.name = "FileNotFoundError"
    /\ CuratedPath(audio_files[1]) \in DOMAIN fs /\ WhisperPath(audio_files[1]) \in DOMAIN fs
    /\ CuratedPath(audio_files[2]) \notin DOMAIN fs /\ WhisperPath(audio_files[2]) \notin DOMAIN fs


\* The paths that are not as they were when the invocation started
Changed == {p \in DOMAIN fs \cup DOMAIN fs0 : ~Same(p)}

\* Stage data: the audio files, the artifacts of the two stages, the manifest
StageData == {p \in DOMAIN fs \cup DOMAIN fs0 :
                 p[1] \in {audio_dir, whisper_dir, curated_dir} \/ p = manifest_path}

\* C36: a transcription run changes only transcription artifacts of the
\* inventory's files, a curation run only curated artifacts of them, an
\* assembler run only the manifest, a publish run, dry or not, no stage data
\* (it writes the QR code only); no run deletes a file, and a run without
\* force leaves the artifact of each file it skipped as it was.
C36_Frame ==
    /\ DOMAIN fs0 \subseteq DOMAIN fs
    /\ stage = "transcribe" => Changed \subseteq {WhisperPath(f) : f \in Range(audio_files)}
    /\ stage = "curate" => Changed \subseteq {CuratedPath(f) : f \in Range(audio_files)}
    /\ stage = "assemble" => Changed \subseteq {manifest_path}
    /\ stage = "publish" => Changed \cap StageData = {} /\ Changed \subseteq {qr_path}
    /\ (InDriver /\ ~force) =>
           \A i \in Files : Skipped(i) => Same(StagePath(audio_files[i]))

\* A curation without force skipped the first file, whose curated artifact
\* is as it was, and wrote the artifact of the second
C36_Witness ==
    /\ stage = "curate" /\ ~force /\ status = "ok" /\ Len(audio_files) = 2
    /\ Skipped(1) /\ CuratedPath(audio_files[1]) \in DOMAIN fs0
    /\ Changed = {CuratedPath(audio_files[2])}

\* C37: an assembler run does not fail while it translates a curated
\* artifact (every curated artifact of the worlds' caches is either written
\* by a curation run or, in the cache of earlier runs, a curated object).
C37_Consumable ==
    ~(/\ stage = "assemble" /\ status = "failed"
      /\ error.name = "AttributeError" /\ error.path[1] = curated_dir)

\* C38: in a publish run that uploaded and ended well no two files of the
\* upload plan have the same destination key, and the object stored under the
\* manifest's key is the manifest file.
C38_ManifestKept ==
    (stage = "publish" /\ ~dryrun /\ status = "ok") =>
        /\ \A i, j \in 1..Len(plan) :
               i # j => DestKey(plan[i]) # DestKey(plan[j])
        /\ store[DestKey(manifest_path)] = [src |-> manifest_path]

\* The owning-track placeholders of the practice sets of the i-th Track
Placeholders(i) ==
    {tracks[i].practiceSets[k].trackId : k \in 1..Len(tracks[i].practiceSets)}

\* C39: the practice sets of one assembled Track carry one owning-track
\* placeholder, and practice sets of different Tracks carry different ones.
C39_OwningTrack ==
    \A i, j \in 1..Len(tracks) :
        /\ Cardinality(Placeholders(i)) = 1
        /\ i # j => Placeholders(i) \cap Placeholders(j) = {}

====
